---- MODULE Spec2Model ----
(***************************************************************************)
(* A model of forza_car_folder_importer.py: the byte reader (BinaryStream), *)
(* the container format (Version, Metadata, Blob, Bundle), the skeleton    *)
(* loader, the mesh loop of create_blender_objects, the material loader    *)
(* (MaterialInstance, ShaderParameter), the texture loader (Texture), the  *)
(* path resolver (SmartPathResolver), the batch import (import_all,        *)
(* import_modelbin), the vertex loop of create_blender_objects, and the    *)
(* import operator with the log (IMPORT_OT_forza_car_folder, forza_log).   *)
(*                                                                         *)
(* Python values are records [t, v]: t names the Python type and v holds   *)
(* the value, so that None, numbers and raised exceptions can be compared. *)
(* One specification per component: SpecVersion, SpecStream, SpecBundle,   *)
(* SpecMesh, SpecSkel, SpecMaterial, SpecParam, SpecTexture, SpecResolver, *)
(* SpecImport, SpecVertex, SpecChain, SpecOperator, SpecExtract, SpecCache.*)
(* Each pins the variables of the other components.                        *)
(***************************************************************************)
EXTENDS Integers, Sequences, FiniteSets, TLC

VARIABLES
    version,      \* Version: [major, minor], Python values
    v_call,       \* the last is_at_least call on version: [called, major, minor, result]
    stream,       \* BinaryStream: [buf, pos]
    last,         \* the last BinaryStream call: [op, pre, r]
    file,         \* the blobs written into the buffer Bundle.deserialize reads
    bundle,       \* Bundle: [pc, tag, version, blobs_length, blobs, n, exc]
    importer,     \* create_blender_objects' arguments: [lod_filter, index_buffer, ids]
    scene,        \* its loop and output: [pc, n, mesh_data, objects,
                  \*   FORZA_LAST_MESH_COUNT, norm_elem_bound, exc]
    step,         \* its last pass: [mesh, outcome, draw_indices, faces]
    skel_blob,    \* the bone records Skeleton.deserialize has read: [parent_index, local]
    skeleton,     \* Skeleton: [pc, bones, exc]
    material,     \* MaterialInstance and the frames of its load: [pc, name, stack,
                  \*   parameters, diffuse_color, diffuse_texture, normal_texture,
                  \*   failed: the parameters at each failed parent load]
    mat_blob,     \* the blob it deserializes: [name, status, bundle]
    mat_disk,     \* the files of its parent chain, nearest first: [status, bundle]
    shader_param, \* a ShaderParameter and the record it reads: [pc, enc, st]
    texture,      \* Texture.load: [pc, buffer, guid, returned, format_encoded, dxgi_format]
    tex_file,     \* the swatchbin file it loads: [status, enc, header, payload]
    filesystem,   \* the files and folders on disk: [files, dirs]
    resolver,     \* SmartPathResolver: [base_folder, game_root, cache, file_index]
    resolved,     \* the last resolve call: [game_path, r, hit, lookups, checks,
                  \*   searches, again: the path was resolved before, called]
    asked,        \* the paths resolve has been called with
    batch,        \* import_all: [pc, folder, import_materials, files, n, imported_count, attempts, result]
    vertices,     \* the vertex loop on one input slot: [pc, stride, count, k, elements,
                  \*   bones, bone_index, bone_transform: the one applied last, exc]
    trail,        \* the files _load_parent_material opened, and the RecursionErrors
    session,      \* the module globals and the operator's runs: [FORZA_LOG_MESSAGES, emitted, FORZA_LAST_MESH_COUNT, FORZA_LAST_MATERIAL_COUNT, materials, runs, created]
    history       \* the first result of each path that resolved, and the changes of the file system

versionVars == <<version, v_call>>
streamVars == <<stream, last>>
bundleVars == <<file, bundle>>
meshVars == <<importer, scene, step>>
skelVars == <<skel_blob, skeleton>>
materialVars == <<material, mat_blob, mat_disk>>
paramVars == <<shader_param>>
textureVars == <<texture, tex_file>>
resolverVars == <<filesystem, resolver, resolved, asked>>
importVars == <<batch>>
vertexVars == <<vertices>>
chainVars == <<trail>>
operatorVars == <<session>>
cacheVars == <<history>>
vars == <<versionVars, streamVars, bundleVars, meshVars, skelVars, materialVars,
          paramVars, textureVars, resolverVars, importVars, vertexVars,
          chainVars, operatorVars, cacheVars>>

----------------------------------------------------------------------------
(* Python values *)

PyInt(n) == [t |-> "int", v |-> n]
PyNone == [t |-> "None", v |-> 0]
PyBool(b) == [t |-> "bool", v |-> b]
PyRaise(e) == [t |-> "raise", v |-> e]
PyStr(s) == [t |-> "str", v |-> s]
\* a / b of two integers: Python's true division, kept as the exact fraction
PyFrac(n, d) == [t |-> "frac", v |-> <<n, d>>]
\* an IEEE-754 value as <<sign, biased exponent, mantissa>>
PyFloat(sign, exp, man) == [t |-> "float", v |-> <<sign, exp, man>>]

IsRaise(x) == x.t = "raise"
IsNone(x) == x.t = "None"

Min(a, b) == IF a < b THEN a ELSE b
Max(a, b) == IF a > b THEN a ELSE b

RECURSIVE Pow2(_)
Pow2(n) == IF n = 0 THEN 1 ELSE 2 * Pow2(n - 1)

----------------------------------------------------------------------------
(* Bounds *)

\* version bytes 0..MaxVerByte, plus the bytes the format's gates test
MaxVerByte == 2
VerBytes == (0..MaxVerByte) \cup {9, 99, 255}
\* longest buffer of the byte-reader specification
MaxBuf == 4
\* largest seek offset of the byte-reader specification
MaxSeek == 2
\* bytes of the byte-reader buffers: a byte at offset >= 3 can be the top byte
\* of a 32-bit read, and is kept below 0x80 so that the value fits TLC's
\* integers; 0x81 (a 7-bit continuation byte, invalid alone in UTF-8) and 0x80
\* (the top byte of the lowest signed 16-bit value) may stand at the first
\* three offsets
LowBytes == {0, 1, 2}
HighBytes == {128, 129}

----------------------------------------------------------------------------
(* BinaryStream *)

Remaining(s) == IF s.pos >= Len(s.buf) THEN 0 ELSE Len(s.buf) - s.pos

\* io.BytesIO.read(size): size is a Python value; None reads to the end
read(s, size) ==
    LET n == IF IsNone(size) \/ size.v < 0 THEN Remaining(s)
             ELSE Min(size.v, Remaining(s))
    IN [s |-> [s EXCEPT !.pos = @ + n], r |-> SubSeq(s.buf, s.pos + 1, s.pos + n)]

\* io.BytesIO.seek(offset, whence): a negative absolute offset raises, a
\* relative one is clipped at 0
seek(s, offset, whence) ==
    IF whence = 0
    THEN IF offset < 0 THEN [s |-> s, r |-> PyRaise("ValueError")]
         ELSE [s |-> [s EXCEPT !.pos = offset], r |-> PyInt(offset)]
    ELSE LET base == IF whence = 1 THEN s.pos ELSE Len(s.buf)
             p == Max(0, base + offset)
         IN [s |-> [s EXCEPT !.pos = p], r |-> PyInt(p)]

\* little-endian unsigned value of a byte string
RECURSIVE LE(_)
LE(b) == IF Len(b) = 0 THEN 0 ELSE b[1] + 256 * LE(Tail(b))

unpack_B(b) == PyInt(b[1])
unpack_H(b) == PyInt(LE(b))
unpack_h(b) == PyInt(IF LE(b) >= 32768 THEN LE(b) - 65536 ELSE LE(b))
unpack_I(b) == PyInt(LE(b))
unpack_i(b) ==
    PyInt(IF b[4] >= 128 THEN LE(SubSeq(b, 1, 3)) + (b[4] - 256) * 16777216
          ELSE LE(b))
unpack_e(b) == PyFloat(b[2] \div 128, (b[2] % 128) \div 4, (b[2] % 4) * 256 + b[1])
unpack_f(b) ==
    PyFloat(b[4] \div 128, (b[4] % 128) * 2 + b[3] \div 128,
            (b[3] % 128) * 65536 + b[2] * 256 + b[1])

\* struct.unpack(fmt, v)[0] for a string v of the format's size
unpack(fmt, b) ==
    CASE fmt = "B" -> unpack_B(b)
      [] fmt = "H" -> unpack_H(b)
      [] fmt = "h" -> unpack_h(b)
      [] fmt = "I" -> unpack_I(b)
      [] fmt = "i" -> unpack_i(b)
      [] fmt = "e" -> unpack_e(b)
      [] fmt = "f" -> unpack_f(b)

\* v = self._stream.read(width); return struct.unpack(fmt, v)[0] if v else None
\* struct.unpack raises struct.error on a string shorter than the format
ReadFixed(s, width, fmt) ==
    LET got == read(s, PyInt(width))
    IN [s |-> got.s,
        r |-> IF Len(got.r) = 0 THEN PyNone
              ELSE IF Len(got.r) # width THEN PyRaise("struct.error")
              ELSE unpack(fmt, got.r)]

read_s16(s) == ReadFixed(s, 2, "h")
read_u8(s) == ReadFixed(s, 1, "B")
read_u16(s) == ReadFixed(s, 2, "H")
read_s32(s) == ReadFixed(s, 4, "i")
read_u32(s) == ReadFixed(s, 4, "I")
read_f16(s) == ReadFixed(s, 2, "e")
read_f32(s) == ReadFixed(s, 4, "f")

\* x / d for the value x a read returned: None / int raises TypeError
Normalized(got, d) ==
    [s |-> got.s,
     r |-> IF IsRaise(got.r) THEN got.r
           ELSE IF IsNone(got.r) THEN PyRaise("TypeError")
           ELSE PyFrac(got.r.v, d)]

read_sn16(s) == Normalized(read_s16(s), 32767)
read_un8(s) == Normalized(read_u8(s), 255)
read_un16(s) == Normalized(read_u16(s), 65535)

\* the loop of read_7bit; None & 0x7F raises TypeError
RECURSIVE read_7bit_loop(_, _, _)
read_7bit_loop(s, value, shift) ==
    LET got == read_u8(s)
    IN IF IsNone(got.r) THEN [s |-> got.s, r |-> PyRaise("TypeError")]
       ELSE LET value2 == value + (got.r.v % 128) * Pow2(shift)
            IN IF got.r.v \div 128 = 0 THEN [s |-> got.s, r |-> PyInt(value2)]
               ELSE read_7bit_loop(got.s, value2, shift + 7)

read_7bit(s) == read_7bit_loop(s, 0, 0)

\* bytes.decode("utf-8") of a string whose bytes are ASCII or bare
\* continuation bytes (0x80..0xBF): the latter are invalid
decode_utf8(b) ==
    IF \E i \in 1..Len(b) : b[i] >= 128 THEN PyRaise("UnicodeDecodeError")
    ELSE PyStr(b)

\* self._stream.read(length).decode("utf-8") for the length a read returned
ReadDecoded(got) ==
    IF IsRaise(got.r) THEN got
    ELSE LET data == read(got.s, got.r)
         IN [s |-> data.s, r |-> decode_utf8(data.r)]

read_string(s) == ReadDecoded(read_u32(s))
read_7bit_string(s) == ReadDecoded(read_7bit(s))

FixedReads ==
    {"read_u8", "read_s16", "read_u16", "read_s32", "read_u32", "read_f16", "read_f32"}
DerivedReads ==
    {"read_sn16", "read_un8", "read_un16", "read_7bit", "read_string", "read_7bit_string"}

Width(op) ==
    CASE op = "read_u8" -> 1
      [] op \in {"read_s16", "read_u16", "read_f16"} -> 2
      [] OTHER -> 4

Call(op, s) ==
    CASE op = "read_u8" -> read_u8(s)
      [] op = "read_s16" -> read_s16(s)
      [] op = "read_u16" -> read_u16(s)
      [] op = "read_s32" -> read_s32(s)
      [] op = "read_u32" -> read_u32(s)
      [] op = "read_f16" -> read_f16(s)
      [] op = "read_f32" -> read_f32(s)
      [] op = "read_sn16" -> read_sn16(s)
      [] op = "read_un8" -> read_un8(s)
      [] op = "read_un16" -> read_un16(s)
      [] op = "read_7bit" -> read_7bit(s)
      [] op = "read_string" -> read_string(s)
      [] op = "read_7bit_string" -> read_7bit_string(s)

\* BinaryStream(buffer): the cursor of a new io.BytesIO is 0
BinaryStream(buffer) == [buf |-> buffer, pos |-> 0]

StreamBuffers ==
    UNION {[1..n -> LowBytes \cup HighBytes] : n \in 0..MaxBuf}

InitStreamVars ==
    /\ stream = BinaryStream(<<>>)
    /\ last = [op |-> "init", pre |-> BinaryStream(<<>>), r |-> PyNone]

StreamInit ==
    /\ \E b \in StreamBuffers :
          /\ \A i \in 1..Len(b) : i > 3 => b[i] \in LowBytes
          /\ stream = BinaryStream(b)
    /\ last = [op |-> "init", pre |-> stream, r |-> PyNone]

StreamRead ==
    \E op \in FixedReads \cup DerivedReads :
        LET got == Call(op, stream)
        IN /\ stream' = got.s
           /\ last' = [op |-> op, pre |-> stream, r |-> got.r]

StreamSeek ==
    \E offset \in 0..MaxSeek, whence \in {0, 1, 2} :
        LET got == seek(stream, offset, whence)
        IN /\ got.s.pos <= MaxBuf + MaxSeek
           /\ stream' = got.s
           /\ last' = [op |-> "seek", pre |-> stream, r |-> got.r]

----------------------------------------------------------------------------
(* Version *)

\* Python's x > y and x >= y against an int: None raises TypeError
PyGt(x, y) == IF IsNone(x) THEN PyRaise("TypeError") ELSE PyBool(x.v > y)
PyGe(x, y) == IF IsNone(x) THEN PyRaise("TypeError") ELSE PyBool(x.v >= y)
PyEq(x, y) == IF IsNone(x) THEN PyBool(FALSE) ELSE PyBool(x.v = y)

\* Version.__init__
Version_init == [major |-> PyInt(0), minor |-> PyInt(0)]

\* Version.deserialize: two read_u8; the values are stored as returned
Version_deserialize(s) ==
    LET a == read_u8(s)
        b == read_u8(a.s)
    IN [s |-> b.s, r |-> [major |-> a.r, minor |-> b.r]]

is_at_least_strict(self, major, minor) ==
    LET gt == PyGt(self.major, major)
    IN IF IsRaise(gt) THEN gt
       ELSE IF gt.v THEN PyBool(TRUE)
       ELSE IF ~PyEq(self.major, major).v THEN PyBool(FALSE)
       ELSE PyGt(self.minor, minor)

\* return self.major > major or (self.major == major and self.minor >= minor)
\* with Python's short-circuit evaluation
is_at_least(self, major, minor) ==
    LET gt == PyGt(self.major, major)
    IN IF IsRaise(gt) THEN gt
       ELSE IF gt.v THEN PyBool(TRUE)
       ELSE IF ~PyEq(self.major, major).v THEN PyBool(FALSE)
       ELSE PyGe(self.minor, minor)

NoCall == [called |-> FALSE, major |-> 0, minor |-> 0, result |-> PyNone]

InitVersionVars ==
    /\ version = Version_init
    /\ v_call = NoCall

VersionDeserialize ==
    \E n \in 0..2 : \E b \in [1..n -> VerBytes] :
        /\ version' = Version_deserialize(BinaryStream(b)).r
        /\ v_call' = NoCall

VersionIsAtLeast ==
    \E major \in VerBytes, minor \in VerBytes :
        /\ v_call' = [called |-> TRUE, major |-> major, minor |-> minor,
                      result |-> is_at_least(version, major, minor)]
        /\ UNCHANGED version

----------------------------------------------------------------------------
(* Tag *)

Tag_Grub == 1198683490
Tag_Id == 1231298592
Tag_Name == 1315007845
Tag_Mesh == 1298494312
Tag_VerB == 1449488962

----------------------------------------------------------------------------
(* Metadata, Blob, Bundle *)

\* buffer[a:b] for a, b >= 0: Python clips a slice at the end of the buffer
Slice(b, from, to) == SubSeq(b, Min(from, Len(b)) + 1, Min(to, Len(b)))

\* dict[key] = value
DictPut(d, key, value) ==
    [k \in DOMAIN d \cup {key} |-> IF k = key THEN value ELSE d[k]]

EmptyDict == [k \in {} |-> 0]

\* Metadata.deserialize(stream): stream[offset : offset + size] slices the
\* buffer of the stream it is given; None >> 4 and None + size raise TypeError
Metadata_of(s, tag, version_and_size, offset) ==
    IF IsRaise(tag) THEN tag
    ELSE IF IsRaise(version_and_size) THEN version_and_size
    ELSE IF IsNone(version_and_size) THEN PyRaise("TypeError")
    ELSE IF IsRaise(offset) THEN offset
    ELSE IF IsNone(offset) THEN PyRaise("TypeError")
    ELSE LET size == version_and_size.v \div 16
         IN [t |-> "Metadata", tag |-> tag,
             stream |-> BinaryStream(Slice(s.buf, offset.v, offset.v + size))]

Metadata_deserialize(s) ==
    LET tag == read_u32(s)
        version_and_size == read_u16(tag.s)
        offset == read_u16(version_and_size.s)
    IN Metadata_of(s, tag.r, version_and_size.r, offset.r)

\* the record of metadata entry i starts at the table's first byte, whatever i
MetadataRecordAtTable(buffer, metadata_offset, i) ==
    BinaryStream(Slice(buffer, metadata_offset, Len(buffer)))

\* BinaryStream(stream[self.metadata_offset + i * 8:])
MetadataRecord(buffer, metadata_offset, i) ==
    BinaryStream(Slice(buffer, metadata_offset + i * 8, Len(buffer)))

\* self.metadata[metadata.tag] = metadata, keeping the entry already there
MetadataPutFirst(metadata, m) ==
    IF m.tag \in DOMAIN metadata THEN metadata ELSE DictPut(metadata, m.tag, m)

\* self.metadata[metadata.tag] = metadata
MetadataPut(metadata, m) == DictPut(metadata, m.tag, m)

\* for i in range(self.metadata_length): from entry i, with the dict so far
RECURSIVE Blob_metadata(_, _, _, _, _)
\* the rest of pass i, for the Metadata m (or the exception) it deserialized
Blob_metadata_put(buffer, metadata_offset, metadata_length, i, metadata, m) ==
    IF IsRaise(m) THEN m
    ELSE Blob_metadata(buffer, metadata_offset, metadata_length, i + 1,
                       MetadataPut(metadata, m))

Blob_metadata(buffer, metadata_offset, metadata_length, i, metadata) ==
    IF i >= metadata_length THEN [t |-> "dict", v |-> metadata]
    ELSE IF IsNone(metadata_offset) THEN PyRaise("TypeError")
    ELSE Blob_metadata_put(buffer, metadata_offset, metadata_length, i, metadata,
             Metadata_deserialize(MetadataRecord(buffer, metadata_offset.v, i)))

\* self.stream = BinaryStream(stream[: self.data_size]): the offset dropped
BlobViewNoOffset(buffer, data_offset, data_size) ==
    BinaryStream(Slice(buffer, 0, data_size))

\* self.stream = BinaryStream(stream[self.data_offset : self.data_offset + self.data_size])
BlobView(buffer, data_offset, data_size) ==
    BinaryStream(Slice(buffer, data_offset, data_offset + data_size))

\* Blob.deserialize once its metadata loop has returned md
Blob_built(at, tag, ver, metadata_length, metadata_offset, data_offset, data_size, buffer, md) ==
    IF IsRaise(md) THEN [s |-> at, r |-> md]
    ELSE IF IsNone(data_offset) \/ IsNone(data_size)
    THEN [s |-> at, r |-> PyRaise("TypeError")]
    ELSE [s |-> at,
          r |-> [t |-> "Blob", tag |-> tag, version |-> ver,
                 metadata_length |-> metadata_length.v,
                 metadata_offset |-> metadata_offset,
                 data_offset |-> data_offset.v,
                 data_size |-> data_size.v,
                 metadata |-> md.v,
                 stream |-> BlobView(buffer, data_offset.v, data_size.v)]]

\* Blob.deserialize once its header reads have returned; at is the stream
\* after them
Blob_of(s, at, tag, ver, metadata_length, metadata_offset, data_offset, data_size) ==
    LET reads == <<tag, metadata_length, metadata_offset, data_offset, data_size>>
        Raised(i) == IsRaise(reads[i])
    IN IF \E i \in 1..5 : Raised(i)
       THEN [s |-> s, r |-> reads[CHOOSE i \in 1..5 : Raised(i)]]
       ELSE IF IsNone(metadata_length) THEN [s |-> at, r |-> PyRaise("TypeError")]
       ELSE Blob_built(at, tag, ver, metadata_length, metadata_offset,
                       data_offset, data_size, s.buf,
                       Blob_metadata(s.buf, metadata_offset, metadata_length.v,
                                     0, EmptyDict))

\* Blob.deserialize(stream): [s: the stream after it, r: the Blob or the exception]
Blob_deserialize(s) ==
    LET tag == read_u32(s)
        ver == Version_deserialize(tag.s)
        metadata_length == read_u16(ver.s)
        metadata_offset == read_u32(metadata_length.s)
        data_offset == read_u32(metadata_offset.s)
        data_size == read_u32(data_offset.s)
        skip == seek(data_size.s, 4, 1)
    IN Blob_of(s, skip.s, tag.r, ver.r, metadata_length.r, metadata_offset.r,
               data_offset.r, data_size.r)

\* defaultdict(list)[tag]
Blobs(b, tag) == IF tag \in DOMAIN b.blobs THEN b.blobs[tag] ELSE <<>>

\* self.blobs[blob.tag] = [blob]: the list replaced
BlobsPutOnly(b, blob) == DictPut(b.blobs, blob.tag, <<blob>>)

\* self.blobs[blob.tag].append(blob)
BlobsAppend(b, blob) == DictPut(b.blobs, blob.tag, Append(Blobs(b, blob.tag), blob))

\* Bundle.__init__
Bundle_init ==
    [pc |-> "new", tag |-> PyNone, version |-> Version_init, blobs_length |-> PyNone,
     blobs |-> EmptyDict, n |-> 0, exc |-> PyNone]

\* Bundle.deserialize up to its loop, once its header reads have returned
Bundle_of(b, tag, ver, short, skip, gate, long) ==
    LET hdr == [b EXCEPT !.tag = tag.r, !.version = ver.r]
        Failed(at, e) == [s |-> at, r |-> [hdr EXCEPT !.pc = "raised", !.exc = e]]
    IN IF IsRaise(tag.r) THEN Failed(tag.s, tag.r)
       ELSE IF IsRaise(short.r) THEN Failed(short.s, short.r)
       ELSE IF IsRaise(gate) THEN Failed(skip.s, gate)
       ELSE IF gate.v /\ IsRaise(long.r) THEN Failed(long.s, long.r)
       ELSE LET blobs_length == IF gate.v THEN long.r ELSE short.r
                at == IF gate.v THEN long.s ELSE skip.s
            IN IF IsNone(blobs_length) THEN Failed(at, PyRaise("TypeError"))
               ELSE [s |-> at,
                     r |-> [hdr EXCEPT !.pc = "loop", !.blobs_length = blobs_length]]

\* Bundle.deserialize up to its loop: [s, r: the Bundle]
Bundle_header(s, b) ==
    LET tag == read_u32(s)
        ver == Version_deserialize(tag.s)
        short == read_u16(ver.s)
        skip == seek(short.s, 8, 1)
    IN Bundle_of(b, tag, ver, short, skip, is_at_least(ver.r, 1, 1), read_u32(skip.s))

----------------------------------------------------------------------------
(* The buffers Bundle.deserialize is run on: the container layout of a list *)
(* of blobs (its header, one 24-byte record per blob, then each blob's      *)
(* metadata table, an area the metadata entries point into, and payload).   *)

\* most blobs of a bundle, most metadata entries of a blob, longest payload
MaxBlobs == 3
MaxMeta == 2
MaxData == 1
BundleVersions == {<<1, 0>>, <<1, 1>>}
BlobTags == {Tag_Mesh, Tag_VerB}
\* metadata entries: a tag, a size and an offset (both as stored in the entry)
MetaEntries ==
    {[tag |-> Tag_Id, size |-> 2, offset |-> 24],
     [tag |-> Tag_Id, size |-> 3, offset |-> 26],
     [tag |-> Tag_Name, size |-> 2, offset |-> 24]}
\* the low four bits stored beside an entry's size
MetaNibble == 3
\* lengths a file is cut to; 0 leaves it whole
CutLengths == {0, 6, 30}

EncU16(n) == <<n % 256, n \div 256>>
EncU32(n) == <<n % 256, (n \div 256) % 256, (n \div 65536) % 256, n \div 16777216>>
Zeros(n) == [i \in 1..n |-> 0]

\* the area after a metadata table: every byte differs from its neighbours
MetaAreaLen(nmeta) == 8 * nmeta + 24
MetaArea(nmeta) == [i \in 1..MetaAreaLen(nmeta) |-> 64 + i]

\* the payload of blob i: its bytes name the blob
Payload(i, size) == [j \in 1..size |-> 16 * i + j]

HeaderLen(ver) == IF ver = <<1, 0>> THEN 16 ELSE 20
BodyLen(blob) == 8 * Len(blob.meta) + MetaAreaLen(Len(blob.meta)) + blob.size

RECURSIVE BodyOffset(_, _, _)
BodyOffset(ver, blobs, i) ==
    IF i = 1 THEN HeaderLen(ver) + 24 * Len(blobs)
    ELSE BodyOffset(ver, blobs, i - 1) + BodyLen(blobs[i - 1])

EncMeta(e) == EncU32(e.tag) \o EncU16(e.size * 16 + MetaNibble) \o EncU16(e.offset)

RECURSIVE Concat(_)
Concat(ss) == IF Len(ss) = 0 THEN <<>> ELSE Head(ss) \o Concat(Tail(ss))

EncRecord(ver, blobs, i) ==
    LET mo == BodyOffset(ver, blobs, i)
        do == mo + 8 * Len(blobs[i].meta) + MetaAreaLen(Len(blobs[i].meta))
    IN EncU32(blobs[i].tag) \o <<1, i>> \o EncU16(Len(blobs[i].meta))
       \o EncU32(mo) \o EncU32(do) \o EncU32(blobs[i].size) \o Zeros(4)

EncBody(blobs, i) ==
    Concat([k \in 1..Len(blobs[i].meta) |-> EncMeta(blobs[i].meta[k])])
    \o MetaArea(Len(blobs[i].meta)) \o Payload(i, blobs[i].size)

Encode(ver, blobs) ==
    EncU32(Tag_Grub) \o <<ver[1], ver[2]>>
    \o EncU16(IF ver = <<1, 0>> THEN Len(blobs) ELSE 0) \o Zeros(8)
    \o (IF ver = <<1, 0>> THEN <<>> ELSE EncU32(Len(blobs)))
    \o Concat([i \in 1..Len(blobs) |-> EncRecord(ver, blobs, i)])
    \o Concat([i \in 1..Len(blobs) |-> EncBody(blobs, i)])

MetaLists == UNION {[1..n -> MetaEntries] : n \in 0..MaxMeta}

\* every blob of a file carries the same metadata entries, and each blob's
\* payload is one byte longer than that of the blob before it
Files ==
    {[version |-> ver, cut |-> cut,
      blobs |-> [i \in 1..n |-> [tag |-> tags[i], meta |-> meta, size |-> size + i - 1]]] :
        <<ver, cut, n, tags, size, meta>> \in
            UNION {BundleVersions \X CutLengths \X {n} \X [1..n -> BlobTags]
                     \X (0..MaxData) \X MetaLists : n \in 0..MaxBlobs}}

FileBuffer(f) ==
    LET whole == Encode(f.version, f.blobs)
    IN IF f.cut = 0 THEN whole ELSE Slice(whole, 0, f.cut)

Truncated(f) == f.cut # 0 /\ f.cut < Len(Encode(f.version, f.blobs))

InitBundleVars ==
    /\ file = [version |-> <<1, 0>>, cut |-> 0, blobs |-> <<>>]
    /\ bundle = Bundle_init

BundleInit ==
    /\ file \in Files
    /\ stream = BinaryStream(FileBuffer(file))
    /\ last = [op |-> "init", pre |-> BinaryStream(<<>>), r |-> PyNone]
    /\ bundle = Bundle_init

\* Bundle.deserialize: the reads before the loop
BundleHeader ==
    /\ bundle.pc = "new"
    /\ \E got \in {Bundle_header(stream, bundle)} :
           stream' = got.s /\ bundle' = got.r
    /\ UNCHANGED <<last, file>>

\* Bundle.deserialize: one pass of `for _ in range(blobs_length)`
BundleBlob ==
    /\ bundle.pc = "loop"
    /\ bundle.n < bundle.blobs_length.v
    /\ \E got \in {Blob_deserialize(stream)} :
           /\ stream' = got.s
           /\ bundle' = IF IsRaise(got.r)
                        THEN [bundle EXCEPT !.pc = "raised", !.exc = got.r]
                        ELSE [bundle EXCEPT !.n = @ + 1,
                                            !.blobs = BlobsAppend(bundle, got.r)]
    /\ UNCHANGED <<last, file>>

\* Bundle.deserialize: the loop is over
BundleReturn ==
    /\ bundle.pc = "loop"
    /\ bundle.n >= bundle.blobs_length.v
    /\ bundle' = [bundle EXCEPT !.pc = "done"]
    /\ UNCHANGED <<stream, last, file>>

----------------------------------------------------------------------------
(* ForzaCarFolderImporter.create_blender_objects: the mesh loop up to the  *)
(* face list, and the objects it creates.  The vertex decode between the   *)
(* two is not modelled.                                                    *)

\* a & b of two non-negative integers
RECURSIVE BitAnd(_, _)
BitAnd(a, b) ==
    IF a = 0 \/ b = 0 THEN 0
    ELSE (a % 2) * (b % 2) + 2 * BitAnd(a \div 2, b \div 2)

RenderPassBit == 16
\* vertex_id_min starts at 0xFFFFFFFF, above every index; the model starts it
\* at the largest integer TLC has, above every index of the model
VertexIdMinInit == 2147483647

\* the LOD test alone
MeshSelectedByLod(mesh, requested_lod) ==
    BitAnd(mesh.levels_of_detail, requested_lod) # 0

\* neither `continue` of the loop is taken
MeshSelected(mesh, requested_lod) ==
    /\ ~(BitAnd(mesh.levels_of_detail, requested_lod) = 0)
    /\ ~(BitAnd(mesh.render_pass, RenderPassBit) = 0)

\* BinaryStream(index_buffer.stream[start * stride : (start + count) * stride])
IndexStream(index_buffer, mesh) ==
    BinaryStream(Slice(index_buffer.stream,
                       mesh.start_index_location * index_buffer.stride,
                       (mesh.start_index_location + mesh.index_count)
                           * index_buffer.stride))

\* for i in range(mesh.index_count): read one index, keep the running
\* minimum and maximum; max(vertex_id_max, None) raises TypeError
RECURSIVE ReadIndices(_, _, _, _)
ReadIndices(s, stride, count, acc) ==
    IF count = 0 THEN acc
    ELSE LET got == IF stride = 4 THEN read_u32(s) ELSE read_u16(s)
         IN IF IsRaise(got.r) THEN [acc EXCEPT !.exc = got.r]
            ELSE IF IsNone(got.r) THEN [acc EXCEPT !.exc = PyRaise("TypeError")]
            ELSE ReadIndices(got.s, stride, count - 1,
                     [acc EXCEPT !.vertex_id_max = Max(@, got.r.v),
                                 !.vertex_id_min = Min(@, got.r.v),
                                 !.draw_indices = Append(@, got.r.v)])

\* the face list without the winding swap
FacesUnswapped(draw_indices, vertex_id_min, index_count) ==
    [i \in 1..(index_count \div 3) |->
        LET j == (i - 1) * 3
        IN <<draw_indices[j + 1] - vertex_id_min, draw_indices[j + 2] - vertex_id_min,
             draw_indices[j + 3] - vertex_id_min>>]

\* for i in range(mesh.index_count // 3): faces.append(...)
Faces(draw_indices, vertex_id_min, index_count) ==
    [i \in 1..(index_count \div 3) |->
        LET j == (i - 1) * 3
        IN <<draw_indices[j + 1] - vertex_id_min, draw_indices[j + 3] - vertex_id_min,
             draw_indices[j + 2] - vertex_id_min>>]

\* one pass of `for mesh in meshes`: [scene, step] after it.  norm_elem is
\* assigned in the vertex loop only, which runs when an index was read; an
\* unbound norm_elem raises UnboundLocalError after the mesh data is made
MeshPass(imp, sc, mesh) ==
    LET next == [sc EXCEPT !.n = @ + 1]
        idx == ReadIndices(IndexStream(imp.index_buffer, mesh),
                            imp.index_buffer.stride, mesh.index_count,
                            [vertex_id_min |-> VertexIdMinInit, vertex_id_max |-> 0,
                             draw_indices |-> <<>>, exc |-> PyNone])
        faces == Faces(idx.draw_indices, idx.vertex_id_min, mesh.index_count)
        bound == sc.norm_elem_bound \/ mesh.index_count > 0
        made == [next EXCEPT !.mesh_data = Append(@, next.n),
                             !.norm_elem_bound = bound]
    IN IF ~MeshSelected(mesh, imp.lod_filter)
       THEN [scene |-> next,
             step |-> [mesh |-> mesh, outcome |-> "skipped",
                       draw_indices |-> <<>>, faces |-> <<>>]]
       ELSE IF IsRaise(idx.exc)
       THEN [scene |-> [next EXCEPT !.pc = "raised", !.exc = idx.exc],
             step |-> [mesh |-> mesh, outcome |-> "raised",
                       draw_indices |-> idx.draw_indices, faces |-> <<>>]]
       ELSE IF ~bound
       THEN [scene |-> [made EXCEPT !.pc = "raised",
                                    !.exc = PyRaise("UnboundLocalError")],
             step |-> [mesh |-> mesh, outcome |-> "raised",
                       draw_indices |-> idx.draw_indices, faces |-> faces]]
       ELSE [scene |-> [made EXCEPT !.objects = Append(@, next.n),
                                    !.FORZA_LAST_MESH_COUNT = @ + 1],
             step |-> [mesh |-> mesh, outcome |-> "created",
                       draw_indices |-> idx.draw_indices, faces |-> faces]]

\* most meshes of a file, most indices of its index buffer, largest index of
\* the short index buffers
MaxMeshes == 2
MaxIndices == 6
MaxVertex == 1
LodMasks == {0, 1, 2}
LodFilters == {1, 3}
RenderPasses == {1, 16, 17}
Strides == {2, 4}
\* the index lists: every triangle over 0..MaxVertex, and the lists
\* 0, 1, 2, .. and .., 4, 3, 2 of MaxIndices indices
IndexLists ==
    [1..3 -> 0..MaxVertex]
        \cup {[k \in 1..MaxIndices |-> k - 1], [k \in 1..MaxIndices |-> MaxIndices + 2 - k]}
Meshes ==
    [levels_of_detail : LodMasks, render_pass : RenderPasses,
     start_index_location : {0, 3}, index_count : {0, 2, 3, MaxIndices, MaxIndices + 1}]

EncIndex(stride, v) == IF stride = 4 THEN EncU32(v) ELSE EncU16(v)

NoStep ==
    [mesh |-> [levels_of_detail |-> 0, render_pass |-> 0, start_index_location |-> 0,
               index_count |-> 0],
     outcome |-> "none", draw_indices |-> <<>>, faces |-> <<>>]

InitMeshVars ==
    /\ importer = [lod_filter |-> 0, index_buffer |-> [stride |-> 2, stream |-> <<>>],
                   ids |-> <<>>]
    /\ scene = [pc |-> "idle", n |-> 0, mesh_data |-> <<>>, objects |-> <<>>,
                FORZA_LAST_MESH_COUNT |-> 0, norm_elem_bound |-> FALSE, exc |-> PyNone]
    /\ step = NoStep

MeshInit ==
    /\ \E ids \in IndexLists, stride \in Strides, lod_filter \in LodFilters :
          importer = [lod_filter |-> lod_filter,
                      index_buffer |->
                          [stride |-> stride,
                           stream |-> Concat([k \in 1..Len(ids) |-> EncIndex(stride, ids[k])])],
                      ids |-> ids]
    /\ scene = [pc |-> "loop", n |-> 0, mesh_data |-> <<>>, objects |-> <<>>,
                FORZA_LAST_MESH_COUNT |-> 0, norm_elem_bound |-> FALSE, exc |-> PyNone]
    /\ step = NoStep

\* create_blender_objects: one pass of the loop, on the next mesh of the list
CreateMesh ==
    /\ scene.pc = "loop"
    /\ scene.n < MaxMeshes
    /\ \E mesh \in Meshes :
          LET got == MeshPass(importer, scene, mesh)
          IN scene' = got.scene /\ step' = got.step
    /\ UNCHANGED importer

\* create_blender_objects: the list is exhausted
CreateReturn ==
    /\ scene.pc = "loop"
    /\ scene' = [scene EXCEPT !.pc = "done"]
    /\ UNCHANGED <<importer, step>>

----------------------------------------------------------------------------
(* Skeleton.deserialize.  A bone record is modelled by the values its reads *)
(* return: the parent index and the 4x4 matrix, row by row.  Matrix entries *)
(* are integers, which single-precision floats hold exactly.                *)

\* list[index]: a negative index counts from the end of the list
PyIndex(list, index) ==
    LET at == IF index < 0 THEN Len(list) + index ELSE index
    IN IF at < 0 \/ at >= Len(list) THEN PyRaise("IndexError")
       ELSE [t |-> "item", v |-> list[at + 1]]

\* transform[i][j] += tr[i][k] * bone[k][j]: the factors exchanged
ComposeParentFirst(local, tr) ==
    [i \in 1..4 |-> [j \in 1..4 |->
        tr[i][1] * local[1][j] + tr[i][2] * local[2][j]
            + tr[i][3] * local[3][j] + tr[i][4] * local[4][j]]]

\* transform[i][j] += bone['transform'][i][k] * tr[k][j], for k in range(4)
Compose(local, tr) ==
    [i \in 1..4 |-> [j \in 1..4 |->
        (((0 + local[i][1] * tr[1][j]) + local[i][2] * tr[2][j])
            + local[i][3] * tr[3][j]) + local[i][4] * tr[4][j]]]

\* if parent_index != -1: the bound on the parent index dropped
HasParentUnbounded(parent_index, bones) == parent_index # -1

\* if parent_index != -1 and parent_index < len(self.bones)
HasParent(parent_index, bones) == parent_index # -1 /\ parent_index < Len(bones)

\* one pass of `for _ in range(bones_length)` on a record: the Skeleton after it
Skeleton_bone(sk, parent_index, local) ==
    IF HasParent(parent_index, sk.bones)
    THEN LET parent == PyIndex(sk.bones, parent_index)
         IN IF IsRaise(parent) THEN [sk EXCEPT !.pc = "raised", !.exc = parent]
            ELSE [sk EXCEPT !.bones = Append(@, [transform |-> Compose(local, parent.v.transform)])]
    ELSE [sk EXCEPT !.bones = Append(@, [transform |-> local])]

\* most bones of a skeleton
MaxBones == 3
\* how far below -1 a parent index goes
MaxBelowRoot == 1
Identity == <<<<1, 0, 0, 0>>, <<0, 1, 0, 0>>, <<0, 0, 1, 0>>, <<0, 0, 0, 1>>>>
\* a translation by (5, 0, 0): the translation is the fourth row
Translate5 == <<<<1, 0, 0, 0>>, <<0, 1, 0, 0>>, <<0, 0, 1, 0>>, <<5, 0, 0, 1>>>>
\* a quarter turn about z that also doubles x
TurnScale == <<<<0, 2, 0, 0>>, <<-1, 0, 0, 0>>, <<0, 0, 1, 0>>, <<0, 0, 0, 1>>>>
LocalTransforms == {Identity, Translate5, TurnScale}
ParentIndices == (-1 - MaxBelowRoot)..MaxBones

InitSkelVars ==
    /\ skel_blob = <<>>
    /\ skeleton = [pc |-> "idle", bones |-> <<>>, exc |-> PyNone]

\* Skeleton.deserialize: self.bones = []
SkelInit ==
    /\ skel_blob = <<>>
    /\ skeleton = [pc |-> "loop", bones |-> <<>>, exc |-> PyNone]

\* Skeleton.deserialize: one pass of the loop, on the next record of the blob
SkeletonBone ==
    /\ skeleton.pc = "loop"
    /\ Len(skel_blob) < MaxBones
    /\ \E parent_index \in ParentIndices, local \in LocalTransforms :
          /\ skel_blob' = Append(skel_blob, [parent_index |-> parent_index, local |-> local])
          /\ skeleton' = Skeleton_bone(skeleton, parent_index, local)

\* Skeleton.deserialize: bones_length records were read
SkeletonReturn ==
    /\ skeleton.pc = "loop"
    /\ skeleton' = [skeleton EXCEPT !.pc = "done"]
    /\ UNCHANGED skel_blob

----------------------------------------------------------------------------
(* MaterialInstance: deserialize, _load_parent_material, _load_parameters   *)
(* and _extract_material_properties.  A material file is modelled by what   *)
(* Bundle.deserialize and the blob reads return for it: per tag the list of *)
(* its blobs, a parent-reference blob by the value read_7bit_string returns *)
(* for it, a parameter blob by the list of the ShaderParameters that were   *)
(* deserialized from it before the block ended or a read raised (an         *)
(* exception in _load_parameters is caught there and changes nothing else). *)
(* A parameter hash is the pair <<high 16 bits, low 16 bits>> of the u32, a  *)
(* path the sequence of its components, each a number.  source_file is not  *)
(* modelled.                                                                *)

Tag_MATI == 1296127049
Tag_MATL == 1296127052
Tag_MTPR == 1297371218
Tag_DFPR == 1145458770

DIFFUSE_TEXTURE == <<28121, 36057>>
DIFFUSE_COLOR == <<61276, 52745>>
NORMAL_TEXTURE == <<35941, 34705>>

\* bool(x) of a Python value
Truthy(x) ==
    CASE x.t = "None" -> FALSE
      [] x.t = "str" -> x.v # <<>>
      [] x.t = "bool" -> x.v
      [] x.t = "int" -> x.v # 0
      [] x.t = "float" -> ~(x.v[2] = 0 /\ x.v[3] = 0)
      [] x.t = "tuple" -> x.v # <<>>
      [] OTHER -> TRUE

\* parent_blobs = bundle.blobs[Tag.MATI]; if not parent_blobs: ... [Tag.MATL]
ParentBlobs(b) == IF b[Tag_MATI] # <<>> THEN b[Tag_MATI] ELSE b[Tag_MATL]

\* param_blobs = bundle.blobs[Tag.MTPR]; if not param_blobs: ... [Tag.DFPR]
ParamBlobs(b) == IF b[Tag_MTPR] # <<>> THEN b[Tag_MTPR] ELSE b[Tag_DFPR]

\* self.parameters[param.hash] = param, keeping the entry already there
ParametersPutFirst(parameters, param) ==
    IF param.hash \in DOMAIN parameters THEN parameters
    ELSE DictPut(parameters, param.hash, param)

\* self.parameters[param.hash] = param
ParametersPut(parameters, param) == DictPut(parameters, param.hash, param)

\* _load_parameters: the loop over the parameters of the block, from the i-th
RECURSIVE load_parameters(_, _, _)
load_parameters(parameters, params, i) ==
    IF i > Len(params) THEN parameters
    ELSE load_parameters(ParametersPut(parameters, params[i]), params, i + 1)

\* _extract_material_properties
extract_material_properties(m) ==
    LET p == m.parameters
        HasPath(h) == h \in DOMAIN p /\ Truthy(p[h].path)
    IN [m EXCEPT
          !.diffuse_texture = IF HasPath(DIFFUSE_TEXTURE) THEN p[DIFFUSE_TEXTURE].path
                              ELSE @,
          !.diffuse_color = IF DIFFUSE_COLOR \in DOMAIN p /\ Truthy(p[DIFFUSE_COLOR].value)
                            THEN p[DIFFUSE_COLOR].value ELSE @,
          !.normal_texture = IF HasPath(NORMAL_TEXTURE) THEN p[NORMAL_TEXTURE].path
                             ELSE @]

\* return from the top frame to its caller (the caller goes on after the call)
Return(m) == [m EXCEPT !.stack = SubSeq(@, 1, Len(@) - 1)]

\* an exception raised in the top frame and never caught before deserialize:
\* deserialize's handler ends the load
Uncaught(m, snapshot) ==
    [m EXCEPT !.stack = <<>>, !.pc = "done",
              !.failed = IF Len(m.stack) > 1 THEN Append(@, snapshot) ELSE @]

\* an exception raised in the top frame: _load_parent_material catches it and
\* returns, deserialize catches it and returns
Caught(m, snapshot) ==
    IF Len(m.stack) > 1
    THEN [Return(m) EXCEPT !.failed = Append(@, snapshot)]
    ELSE [m EXCEPT !.stack = <<>>, !.pc = "done"]

\* most files in the parent chain of a material
MaxChain == 2
\* the path of the i-th file of the chain, of a file that is nowhere, and ''
ParentPath(i) == <<0, i>>
GonePath == <<0, 0>>
EmptyPath == <<>>

\* the hash most parameters are written under, and a second one
PlainHash == <<0, 1>>
OtherHash == <<0, 2>>
\* the parameter level i writes under hash h: its value names the level
LevelParam(h, i) ==
    [hash |-> h,
     value |-> IF h \in {DIFFUSE_TEXTURE, NORMAL_TEXTURE} THEN PyNone ELSE PyInt(i + 1),
     path |-> IF h \in {DIFFUSE_TEXTURE, NORMAL_TEXTURE} THEN PyStr(<<1, i>>) ELSE PyNone]
\* a second parameter of level i under hash h
LevelParamAgain(h, i) == [LevelParam(h, i) EXCEPT !.value = PyInt(i + 11)]

NoBlobs == [t \in {Tag_MATI, Tag_MATL, Tag_MTPR, Tag_DFPR} |-> <<>>]

\* the parent-reference blobs of level i, <<MATI blobs, MATL blobs>>
ParentRefs(i) ==
    {<<<<>>, <<>>>>,
     <<<<PyStr(ParentPath(i + 1))>>, <<>>>>,
     <<<<>>, <<PyStr(ParentPath(i + 1))>>>>,
     <<<<PyStr(ParentPath(i + 1))>>, <<PyStr(GonePath)>>>>,
     <<<<PyStr(GonePath)>>, <<PyStr(ParentPath(i + 1))>>>>,
     <<<<PyStr(EmptyPath)>>, <<>>>>,
     <<<<PyRaise("TypeError")>>, <<>>>>}

\* the parameter blobs of level i, <<MTPR blobs, DFPR blobs>>
ParamRefs(i) ==
    {<<<<>>, <<>>>>,
     <<<< <<LevelParam(PlainHash, i)>> >>, <<>>>>,
     <<<< <<LevelParam(PlainHash, i), LevelParamAgain(PlainHash, i)>> >>, <<>>>>,
     <<<< <<LevelParam(DIFFUSE_TEXTURE, i), LevelParam(DIFFUSE_COLOR, i),
            LevelParam(NORMAL_TEXTURE, i)>> >>, <<>>>>,
     <<<<>>, << <<LevelParam(OtherHash, i)>> >>>>,
     <<<< <<>> >>, << <<LevelParam(OtherHash, i)>> >>>>}

MaterialBundles(i) ==
    {[NoBlobs EXCEPT ![Tag_MATI] = refs[1], ![Tag_MATL] = refs[2],
                     ![Tag_MTPR] = prms[1], ![Tag_DFPR] = prms[2]] :
        refs \in ParentRefs(i), prms \in ParamRefs(i)}

\* a file on disk: whether resolve finds it, os.path.exists holds, open and
\* Bundle.deserialize return, and the bundle decoded from it
MaterialFiles(i) ==
    {[status |-> s, bundle |-> NoBlobs] :
        s \in {"unresolved", "missing", "unreadable", "truncated"}}
    \cup {[status |-> "ok", bundle |-> b] : b \in MaterialBundles(i)}

\* the file a bundle's parent reference names is file i
RefersTo(b, i) == ParentBlobs(b) # <<>> /\ ParentBlobs(b)[1] = PyStr(ParentPath(i))

\* the files i..MaxChain of a disk on which a file no loaded file refers to
\* is not there; referred tells whether file i - 1 refers to file i
RECURSIVE Chains(_, _)
Chains(i, referred) ==
    IF i > MaxChain THEN {<<>>}
    ELSE IF ~referred
    THEN {<<[status |-> "unresolved", bundle |-> NoBlobs]>> \o rest :
              rest \in Chains(i + 1, FALSE)}
    ELSE UNION {{<<f>> \o rest :
                    rest \in Chains(i + 1, f.status = "ok" /\ RefersTo(f.bundle, i + 1))} :
                f \in MaterialFiles(i)}

\* the blob MaterialInstance.deserialize is given: its Name metadata as
\* read_string returns it (None: no such metadata) and the nested bundle
MaterialBlobs ==
    {[name |-> PyStr(<<"body">>), status |-> "ok", bundle |-> b] : b \in MaterialBundles(0)}
    \cup {[name |-> PyNone, status |-> "ok", bundle |-> NoBlobs],
          [name |-> PyRaise("UnicodeDecodeError"), status |-> "ok", bundle |-> NoBlobs],
          [name |-> PyStr(<<"body">>), status |-> "truncated", bundle |-> NoBlobs]}

\* the file at a path
FileAt(disk, path) ==
    IF Len(path) = 2 /\ path[1] = 0 /\ path[2] \in DOMAIN disk THEN disk[path[2]]
    ELSE [status |-> "unresolved", bundle |-> NoBlobs]

\* "Material", and (0.8, 0.8, 0.8, 1.0) in tenths
DefaultName == PyStr(<<"Material">>)
DefaultColor ==
    [t |-> "tuple", v |-> <<PyFrac(8, 10), PyFrac(8, 10), PyFrac(8, 10), PyFrac(10, 10)>>]

\* MaterialInstance.__init__
MaterialInstance_init ==
    [pc |-> "idle", name |-> PyStr(<<>>), stack |-> <<>>, parameters |-> EmptyDict,
     diffuse_color |-> DefaultColor, diffuse_texture |-> PyNone,
     normal_texture |-> PyNone, failed |-> <<>>]

Frame(fn, path, b, at) == [fn |-> fn, path |-> path, bundle |-> b, at |-> at]

\* MaterialInstance.deserialize up to the parent reference
MaterialInstance_deserialize(m, blob) ==
    IF IsRaise(blob.name) THEN [m EXCEPT !.pc = "raised"]
    ELSE IF blob.status # "ok"
    THEN [m EXCEPT !.pc = "done",
                   !.name = IF IsNone(blob.name) THEN DefaultName ELSE blob.name]
    ELSE [m EXCEPT !.pc = "run",
                   !.name = IF IsNone(blob.name) THEN DefaultName ELSE blob.name,
                   !.stack = <<Frame("deserialize", PyStr(EmptyPath), blob.bundle, "parent")>>]

\* deserialize and _load_parent_material: the parent reference of the top
\* frame's bundle and the call it makes
load_parent_reference(m) ==
    LET n == Len(m.stack)
        refs == ParentBlobs(m.stack[n].bundle)
    IN IF refs = <<>> THEN [m EXCEPT !.stack[n].at = "params"]
       ELSE IF IsRaise(refs[1]) THEN Caught(m, m.parameters)
       ELSE [m EXCEPT !.stack =
                Append([@ EXCEPT ![n].at = "params"],
                       Frame("_load_parent_material", refs[1], NoBlobs, "open"))]

\* _load_parent_material with a guard that this code does not have: a path
\* that a frame below is already loading is not loaded again
load_parent_material_once(m, disk) ==
    LET n == Len(m.stack)
        path == m.stack[n].path
        f == FileAt(disk, path.v)
    IN IF \E i \in 1..(n - 1) : m.stack[i].path = path THEN Return(m)
       ELSE IF ~Truthy(path) \/ f.status \in {"unresolved", "missing"}
       THEN [Return(m) EXCEPT !.failed = Append(@, m.parameters)]
       ELSE IF f.status # "ok" THEN Caught(m, m.parameters)
       ELSE [m EXCEPT !.stack[n].bundle = f.bundle, !.stack[n].at = "parent"]

\* _load_parent_material up to the bundle of the parent file
load_parent_material(m, disk) ==
    LET n == Len(m.stack)
        path == m.stack[n].path
        f == FileAt(disk, path.v)
    IN IF ~Truthy(path) \/ f.status \in {"unresolved", "missing"}
       THEN [Return(m) EXCEPT !.failed = Append(@, m.parameters)]
       ELSE IF f.status # "ok" THEN Caught(m, m.parameters)
       ELSE [m EXCEPT !.stack[n].bundle = f.bundle, !.stack[n].at = "parent"]

\* deserialize and _load_parent_material from the parameter blob on
load_own_parameters(m) ==
    LET n == Len(m.stack)
        blobs == ParamBlobs(m.stack[n].bundle)
        merged == [m EXCEPT !.parameters =
                      IF blobs = <<>> THEN @ ELSE load_parameters(@, blobs[1], 1)]
    IN IF n > 1 THEN Return(merged)
       ELSE [extract_material_properties(merged) EXCEPT !.stack = <<>>, !.pc = "done"]

InitMaterialVars ==
    material = [MaterialInstance_init EXCEPT !.pc = "off"]
    /\ mat_blob = [name |-> PyNone, status |-> "ok", bundle |-> NoBlobs]
    /\ mat_disk = <<>>

MaterialInit ==
    /\ material = MaterialInstance_init
    /\ mat_blob \in MaterialBlobs
    /\ mat_disk \in Chains(1, mat_blob.status = "ok" /\ RefersTo(mat_blob.bundle, 1))

MaterialDeserialize ==
    /\ material.pc = "idle"
    /\ material' = MaterialInstance_deserialize(material, mat_blob)
    /\ UNCHANGED <<mat_blob, mat_disk>>

MaterialParent ==
    /\ material.pc = "run"
    /\ material.stack[Len(material.stack)].at = "parent"
    /\ material' = load_parent_reference(material)
    /\ UNCHANGED <<mat_blob, mat_disk>>

MaterialOpen ==
    /\ material.pc = "run"
    /\ material.stack[Len(material.stack)].at = "open"
    /\ material' = load_parent_material(material, mat_disk)
    /\ UNCHANGED <<mat_blob, mat_disk>>

MaterialParams ==
    /\ material.pc = "run"
    /\ material.stack[Len(material.stack)].at = "params"
    /\ material' = load_own_parameters(material)
    /\ UNCHANGED <<mat_blob, mat_disk>>

----------------------------------------------------------------------------
(* ShaderParameter.deserialize.  The decode is carried through its stages  *)
(* in a record [s: the stream, version, hash, type, value, path, exc]; exc *)
(* is the exception that ended it, or None.                                *)

\* ShaderParameter.__init__, on the stream s it is about to read
ShaderParameter_init(s) ==
    [s |-> s, version |-> Version_init, hash |-> PyInt(0), type |-> PyInt(0),
     value |-> PyNone, path |-> PyNone, exc |-> PyNone]

\* version = Version(); version.deserialize(stream)
ShaderParameter_version(st) ==
    LET ver == Version_deserialize(st.s)
    IN [st EXCEPT !.s = ver.s, !.version = ver.r]

\* self.hash = stream.read_u32()
ShaderParameter_hash(st) ==
    LET got == read_u32(st.s)
    IN IF IsRaise(got.r) THEN [st EXCEPT !.s = got.s, !.exc = got.r]
       ELSE [st EXCEPT !.s = got.s, !.hash = got.r]

\* if version.is_at_least(3, 1) and stream.read_u8() != 0: stream.seek(4, 1)
ShaderParameter_flag(st) ==
    LET gate == is_at_least(st.version, 3, 1)
        flag == read_u8(st.s)
    IN IF IsRaise(st.exc) THEN st
       ELSE IF IsRaise(gate) THEN [st EXCEPT !.exc = gate]
       ELSE IF ~gate.v THEN st
       ELSE IF flag.r # PyInt(0) THEN [st EXCEPT !.s = seek(flag.s, 4, 1).s]
       ELSE [st EXCEPT !.s = flag.s]

\* self.type = stream.read_u8(); if version.is_at_least(3, 0): stream.read(16)
ShaderParameter_type(st) ==
    LET type == read_u8(st.s)
        gate == is_at_least(st.version, 3, 0)
    IN IF IsRaise(st.exc) THEN st
       ELSE IF IsRaise(gate) THEN [st EXCEPT !.type = type.r, !.exc = gate]
       ELSE [st EXCEPT !.type = type.r,
                       !.s = IF gate.v THEN read(type.s, PyInt(16)).s ELSE type.s]

\* (stream.read_f32(), ...): n reads, left to right
RECURSIVE read_f32_tuple(_, _, _)
read_f32_tuple(s, n, sofar) ==
    IF n = 0 THEN [s |-> s, r |-> [t |-> "tuple", v |-> sofar]]
    ELSE IF IsRaise(read_f32(s).r) THEN read_f32(s)
    ELSE read_f32_tuple(read_f32(s).s, n - 1, Append(sofar, read_f32(s).r))

\* the branch of a parameter type; got is the first read of the branch
ShaderParameter_color(st, got) ==
    IF IsRaise(got.r) THEN [st EXCEPT !.s = got.s, !.exc = got.r]
    ELSE [st EXCEPT !.s = got.s, !.value = got.r]

ShaderParameter_float(st, got) ==
    IF IsRaise(got.r) THEN [st EXCEPT !.s = got.s, !.exc = got.r]
    ELSE [st EXCEPT !.s = got.s, !.value = got.r]

ShaderParameter_bool(st, got) ==
    IF IsRaise(got.r) THEN [st EXCEPT !.s = got.s, !.exc = got.r]
    ELSE [st EXCEPT !.s = got.s, !.value = PyBool(got.r # PyInt(0))]

ShaderParameter_texture(st, got) ==
    IF IsRaise(got.r) THEN [st EXCEPT !.s = got.s, !.exc = got.r]
    ELSE [st EXCEPT !.s = seek(got.s, 4, 1).s, !.path = got.r]

\* a sampler branch that skips 8 bytes whatever the version
ShaderParameter_sampler_short(st) == [st EXCEPT !.s = seek(st.s, 8, 1).s]

ShaderParameter_sampler(st) ==
    LET gate == is_at_least(st.version, 1, 1)
    IN IF IsRaise(gate) THEN [st EXCEPT !.s = seek(st.s, 8, 1).s, !.exc = gate]
       ELSE IF gate.v THEN [st EXCEPT !.s = seek(seek(st.s, 8, 1).s, 4, 1).s]
       ELSE [st EXCEPT !.s = seek(st.s, 8, 1).s]

ShaderParameter_gradient(st, got) ==
    IF IsRaise(got.r) THEN [st EXCEPT !.s = got.s, !.exc = got.r]
    ELSE IF IsNone(got.r) THEN [st EXCEPT !.s = got.s, !.exc = PyRaise("TypeError")]
    ELSE [st EXCEPT !.s = seek(got.s, 4 * got.r.v, 1).s]

ShaderParameter_vector2(st, got) ==
    IF IsRaise(got.r) THEN [st EXCEPT !.s = got.s, !.exc = got.r]
    ELSE IF IsRaise(is_at_least(st.version, 2, 0))
    THEN [st EXCEPT !.s = got.s, !.value = got.r, !.exc = is_at_least(st.version, 2, 0)]
    ELSE IF ~is_at_least(st.version, 2, 0).v
    THEN [st EXCEPT !.s = seek(got.s, 8, 1).s, !.value = got.r]
    ELSE [st EXCEPT !.s = got.s, !.value = got.r]

\* the if/elif chain on self.type
ShaderParameter_payload(st) ==
    IF IsRaise(st.exc) THEN st
    ELSE IF st.type \in {PyInt(0), PyInt(5), PyInt(9)}
    THEN [st EXCEPT !.s = seek(st.s, 16, 1).s]
    ELSE IF st.type = PyInt(1)
    THEN ShaderParameter_color(st, read_f32_tuple(st.s, 4, <<>>))
    ELSE IF st.type = PyInt(2) THEN ShaderParameter_float(st, read_f32(st.s))
    ELSE IF st.type = PyInt(4) THEN [st EXCEPT !.s = seek(st.s, 4, 1).s]
    ELSE IF st.type = PyInt(3) THEN ShaderParameter_bool(st, read_u32(st.s))
    ELSE IF st.type = PyInt(6) THEN ShaderParameter_texture(st, read_7bit_string(st.s))
    ELSE IF st.type = PyInt(7) THEN ShaderParameter_sampler(st)
    ELSE IF st.type = PyInt(8) THEN ShaderParameter_gradient(st, read_u32(st.s))
    ELSE IF st.type = PyInt(11)
    THEN ShaderParameter_vector2(st, read_f32_tuple(st.s, 2, <<>>))
    ELSE st

\* ShaderParameter.deserialize(stream)
ShaderParameter_deserialize(st) ==
    ShaderParameter_payload(ShaderParameter_type(ShaderParameter_flag(
        ShaderParameter_hash(ShaderParameter_version(st)))))


\* the streams ShaderParameter.deserialize is run on: a parameter record
\* written field by field as deserialize reads it, from
\* [version, flag, type, prefix, path, count], then padded or cut short
MaxCount == 2
MaxPathLen == 2
ParamVersions == {<<0, 9>>, <<1, 0>>, <<1, 1>>, <<2, 0>>, <<3, 0>>, <<3, 1>>, <<4, 0>>}
ParamTypes == 0..12
ParamHash == <<9, 206, 92, 111>>
One_f32 == <<0, 0, 128, 63>>
AtLeast(ver, major, minor) == ver[1] > major \/ (ver[1] = major /\ ver[2] >= minor)

\* a length as a 7-bit prefix of one byte, or of two (a continuation byte first)
Prefix7Bit(n, width) == IF width = 1 THEN <<n>> ELSE <<128 + n, 0>>

ParamPayload(e) ==
    CASE e.type \in {0, 5, 9} -> Zeros(16)
      [] e.type = 1 -> One_f32 \o One_f32 \o One_f32 \o One_f32
      [] e.type = 2 -> One_f32
      [] e.type = 3 -> <<e.count, 0, 0, 0>>
      [] e.type = 4 -> <<7, 0, 0, 0>>
      [] e.type = 6 -> Prefix7Bit(Len(e.path), e.prefix) \o e.path \o Zeros(4)
      [] e.type = 7 -> Zeros(8) \o (IF AtLeast(e.version, 1, 1) THEN Zeros(4) ELSE <<>>)
      [] e.type = 8 -> <<e.count, 0, 0, 0>> \o Zeros(4 * e.count)
      [] e.type = 11 -> One_f32 \o One_f32
                        \o (IF AtLeast(e.version, 2, 0) THEN <<>> ELSE Zeros(8))
      [] OTHER -> <<>>

ParamBytes(e) ==
    e.version \o ParamHash
    \o (IF AtLeast(e.version, 3, 1)
        THEN <<e.flag>> \o (IF e.flag # 0 THEN Zeros(4) ELSE <<>>) ELSE <<>>)
    \o <<e.type>>
    \o (IF AtLeast(e.version, 3, 0) THEN Zeros(16) ELSE <<>>)
    \o ParamPayload(e)

ParamPaths == UNION {[1..n -> {97, 129}] : n \in 0..MaxPathLen}

ParamRecords ==
    {e \in [version : ParamVersions, flag : {0, 1}, type : ParamTypes,
            prefix : {1, 2}, path : ParamPaths, count : 0..MaxCount] :
        /\ e.type # 6 => e.prefix = 1 /\ e.path = <<>>
        /\ e.type \notin {3, 8} => e.count = 0
        /\ ~AtLeast(e.version, 3, 1) => e.flag = 0}

\* the record's bytes, followed by pad more bytes, or without its last cut bytes
ParamStream(e, pad, cut) ==
    IF cut = 0 THEN ParamBytes(e) \o Zeros(pad)
    ELSE SubSeq(ParamBytes(e), 1, Max(0, Len(ParamBytes(e)) - cut))

NoParam ==
    [version |-> <<0, 0>>, flag |-> 0, type |-> 0, prefix |-> 1, path |-> <<>>,
     count |-> 0]

InitParamVars ==
    shader_param = [pc |-> "off", enc |-> NoParam,
                    st |-> ShaderParameter_init(BinaryStream(<<>>))]

ParamInit ==
    \E e \in ParamRecords, pad \in {0, 3}, cut \in {0, 1, 2, 5} :
        /\ pad > 0 => cut = 0
        /\ shader_param = [pc |-> "new", enc |-> e,
                           st |-> ShaderParameter_init(BinaryStream(ParamStream(e, pad, cut)))]

\* param = ShaderParameter(); param.deserialize(stream)
ParamDeserialize ==
    /\ shader_param.pc = "new"
    /\ \E got \in {ShaderParameter_deserialize(shader_param.st)} :
          shader_param' = [shader_param EXCEPT
                              !.pc = IF IsRaise(got.exc) THEN "raised" ELSE "done",
                              !.st = got]

----------------------------------------------------------------------------
(* Texture.load *)

Tag_TXCH == 1415070536
Tag_TXCB == 1415070530

\* struct.pack("I", n)
pack_I(n) == <<n % 256, (n \div 256) % 256, (n \div 65536) % 256, n \div 16777216>>

\* Python's truth value of a read_u32 result
TruthyInt(x) == ~IsNone(x) /\ x.v # 0

\* the reads of the TXCH header, in order; exc is the first exception:
\* UUID(bytes_le=...) raises ValueError unless it is given 16 bytes
Texture_header(s) ==
    LET guid == read(seek(s, 8, 1).s, PyInt(16))
        width == read(guid.s, PyInt(4))
        height == read(width.s, PyInt(4))
        mip_levels == read(seek(height.s, 6, 1).s, PyInt(1))
        transcoding == read_u32(seek(mip_levels.s, 1, 1).s)
        color_profile == read_u32(seek(transcoding.s, 4, 1).s)
        encoding == read_u32(seek(color_profile.s, 12, 1).s)
        linear_size == read(seek(encoding.s, 8, 1).s, PyInt(4))
    IN [guid |-> guid.r,
        width |-> width.r, height |-> height.r, mip_levels |-> mip_levels.r,
        transcoding |-> transcoding.r, color_profile |-> color_profile.r,
        encoding |-> encoding.r, linear_size |-> linear_size.r,
        exc |-> IF Len(guid.r) # 16 THEN PyRaise("ValueError")
                ELSE IF IsRaise(transcoding.r) THEN transcoding.r
                ELSE IF IsRaise(color_profile.r) THEN color_profile.r
                ELSE IF IsRaise(encoding.r) THEN encoding.r
                ELSE PyNone]

\* a selection that takes the encoding whatever the transcoding
format_encoded_plain(transcoding, encoding) == encoding

\* format_encoded = encoding if transcoding <= 1 else transcoding - 2
format_encoded(transcoding, encoding) ==
    IF IsRaise(PyGt(transcoding, 1)) THEN PyGt(transcoding, 1)
    ELSE IF ~PyGt(transcoding, 1).v THEN encoding
    ELSE PyInt(transcoding.v - 2)

\* a lookup whose default is the key itself
format_map_key(key, color_profile) == IF IsNone(key) THEN 0 ELSE key.v

\* format_map.get(format_encoded, 0)
format_map(key, color_profile) ==
    IF IsNone(key) THEN 0
    ELSE CASE key.v = 0 -> IF TruthyInt(color_profile) THEN 72 ELSE 71
           [] key.v = 1 -> IF TruthyInt(color_profile) THEN 75 ELSE 74
           [] key.v = 2 -> IF TruthyInt(color_profile) THEN 78 ELSE 77
           [] key.v = 3 -> 80
           [] key.v = 4 -> 81
           [] key.v = 5 -> 83
           [] key.v = 6 -> 84
           [] key.v = 7 -> 95
           [] key.v = 8 -> 96
           [] key.v = 9 -> IF TruthyInt(color_profile) THEN 99 ELSE 98
           [] key.v = 13 -> IF TruthyInt(color_profile) THEN 29 ELSE 28
           [] OTHER -> 0

\* b''.join([...]): the pieces of the container, in order
DDS_buffer(h, dxgi_format, payload) ==
    <<68, 68, 83, 32, 124, 0, 0, 0, 7, 16, 10, 0>> \o h.height
    \o h.width \o h.linear_size \o <<1, 0, 0, 0>> \o h.mip_levels \o Zeros(3)
    \o Zeros(16)
    \o Zeros(16)
    \o Zeros(12) \o <<32, 0, 0, 0>>
    \o <<4, 0, 0, 0, 68, 88, 49, 48>> \o Zeros(8)
    \o Zeros(12) \o <<8, 16, 64, 0>>
    \o Zeros(16)
    \o pack_I(dxgi_format) \o <<3, 0, 0, 0, 0, 0, 0, 0, 1, 0, 0, 0>>
    \o <<3, 0, 0, 0>> \o payload

Texture_failed(t) == [t EXCEPT !.pc = "done", !.returned = PyBool(FALSE)]

\* UUID(bytes_le=b): the bytes in the order of the UUID's digits (the first
\* three fields are little-endian); the string is their hexadecimal form
UUID_bytes_le(b) ==
    <<b[4], b[3], b[2], b[1], b[6], b[5], b[8], b[7]>> \o SubSeq(b, 9, 16)

\* self.guid = "{" + str(UUID(bytes_le=header_stream.read(16))).upper() + "}"
Texture_guid(t, h) ==
    IF Len(h.guid) # 16 THEN t ELSE [t EXCEPT !.guid = PyStr(UUID_bytes_le(h.guid))]

\* the tail of load, once the header has been read
Texture_assemble(t, h, payload) ==
    IF IsRaise(h.exc) \/ IsRaise(format_encoded(h.transcoding, h.encoding))
    THEN Texture_failed(Texture_guid(t, h))
    ELSE [Texture_guid(t, h) EXCEPT
             !.pc = "done",
             !.format_encoded = format_encoded(h.transcoding, h.encoding),
             !.dxgi_format =
                 PyInt(format_map(format_encoded(h.transcoding, h.encoding),
                                  h.color_profile)),
             !.buffer =
                 DDS_buffer(h, format_map(format_encoded(h.transcoding, h.encoding),
                                          h.color_profile), payload),
             !.returned = PyBool(TRUE)]

\* Texture.load on the file f the path resolves to: [status, header, payload]
Texture_load(t, f) ==
    IF f.status # "ok" THEN Texture_failed(t)
    ELSE Texture_assemble(t, Texture_header(BinaryStream(f.header)), f.payload)

\* Texture.__init__
Texture_init ==
    [pc |-> "new", buffer |-> <<>>, guid |-> PyStr(<<>>), returned |-> PyNone,
     format_encoded |-> PyNone, dxgi_format |-> PyNone]

\* the swatchbin files: what stops load before the header, or a TXCH header
\* written field by field and cut to a length, and the TXCB payload
MaxFormat == 14
MaxPayload == 2
HeaderWidth == <<11, 12, 13, 14>>
HeaderHeight == <<21, 22, 23, 24>>
HeaderLinearSize == <<31, 32, 33, 34>>
HeaderGuid == [i \in 1..16 |-> i]
HeaderLengths == {0, 20, 24, 26, 32, 39, 42, 44, 46, 48, 50, 52, 64, 66, 68, 76, 78, 80, 84}

HeaderBytes(e) ==
    Zeros(8) \o HeaderGuid \o HeaderWidth \o HeaderHeight \o Zeros(6)
    \o <<5, 0>> \o pack_I(e.transcoding) \o Zeros(4)
    \o pack_I(e.color_profile) \o Zeros(12) \o pack_I(e.encoding) \o Zeros(8)
    \o HeaderLinearSize \o Zeros(4)

TextureStatus == {"unresolved", "missing", "unreadable", "no TXCB", "no TXCH", "ok"}

TextureFiles ==
    {[status |-> st, enc |-> e, header |-> SubSeq(HeaderBytes(e), 1, e.length),
      payload |-> [i \in 1..n |-> 40 + i]] :
        st \in TextureStatus,
        e \in [transcoding : 0..(MaxFormat + 2), encoding : 0..MaxFormat,
               color_profile : {0, 1}, length : HeaderLengths],
        n \in {0, MaxPayload}}

NoTexture ==
    [status |-> "unresolved",
     enc |-> [transcoding |-> 0, encoding |-> 0, color_profile |-> 0, length |-> 0],
     header |-> <<>>, payload |-> <<>>]

InitTextureVars ==
    /\ texture = [Texture_init EXCEPT !.pc = "off"]
    /\ tex_file = NoTexture

TextureInit ==
    /\ texture = Texture_init
    /\ \E f \in TextureFiles :
          /\ f.status # "ok" => f.enc = NoTexture.enc /\ f.payload = <<>>
          /\ f.enc.length < 44 => f.enc.transcoding = 0 /\ f.enc.encoding = 0
          /\ tex_file = f

\* texture.load()
TextureLoad ==
    /\ texture.pc = "new"
    /\ \E got \in {Texture_load(texture, tex_file)} : texture' = got
    /\ UNCHANGED tex_file

----------------------------------------------------------------------------
(* SmartPathResolver.  A path is the sequence of its components; a file    *)
(* system is the set of its files' paths.                                  *)

\* a lower() that keeps the case
LowerKeep(c) == c

\* str.lower() on the components that occur
Lower(c) ==
    CASE c = "Body.DDS" -> "body.dds"
      [] c = "BODY.dds" -> "body.dds"
      [] c = "Game:" -> "game:"
      [] c = "GAME:" -> "game:"
      [] OTHER -> c

\* os.path.basename(normalized), os.path.dirname(current)
basename(path) == IF Len(path) = 0 THEN "" ELSE path[Len(path)]
dirname(path) == IF Len(path) = 0 THEN path ELSE SubSeq(path, 1, Len(path) - 1)

IsPrefix(a, b) == Len(a) <= Len(b) /\ SubSeq(b, 1, Len(a)) = a

\* os.path.checks(path), os.path.isdir(path): a directory is the root, a
\* directory given in dirs, or one that holds a file
isdir(disk, path) ==
    \/ path = <<>>
    \/ path \in disk.dirs
    \/ \E f \in disk.files : Len(path) < Len(f) /\ IsPrefix(path, f)
exists(disk, path) == path \in disk.files \/ isdir(disk, path)

\* the files os.walk(top) yields
Walk(disk, top) == {f \in disk.files : Len(top) < Len(f) /\ IsPrefix(top, f)}

\* os.walk is top-down: of the files of one key, a file can be the first one
\* met if none of the others lies in a directory above its own
FirstMet(found, key) ==
    {f \in found :
        /\ Lower(basename(f)) = key
        /\ \A g \in found :
              (Lower(basename(g)) = key /\ g # f) =>
                  ~(Len(dirname(g)) < Len(dirname(f)) /\ IsPrefix(dirname(g), dirname(f)))}

Keys(found) == {Lower(basename(f)) : f \in found}

\* the walk of base_folder, then of game_root if it is set and a directory;
\* a key that is in the index is not replaced
FileIndexes(disk, base_folder, game_root) ==
    LET first == Walk(disk, base_folder)
        second == IF game_root # <<>> /\ isdir(disk, game_root)
                  THEN Walk(disk, game_root) ELSE {}
    IN {index \in [Keys(first) \cup Keys(second) -> disk.files] :
           \A key \in DOMAIN index :
               IF key \in Keys(first) THEN index[key] \in FirstMet(first, key)
               ELSE index[key] \in FirstMet(second, key)}

\* SmartPathResolver.__init__; game_root <<>> stands for None
SmartPathResolver_init(base_folder, game_root, index) ==
    [base_folder |-> base_folder, game_root |-> game_root, cache |-> <<>>,
     file_index |-> index]

\* self.cache[game_path] = result
CacheSet(cache, game_path, result) ==
    [p \in DOMAIN cache \cup {game_path} |->
        IF p = game_path THEN result ELSE cache[p]]

\* if result: self.cache[game_path] = result
CachePut(cache, game_path, result) ==
    IF result = <<>> THEN cache ELSE CacheSet(cache, game_path, result)

\* relative_path: the path without its 'game:' prefix
relative_path(game_path) ==
    IF Lower(game_path[1]) = "game:" THEN Tail(game_path) ELSE game_path

\* _search_upwards(current, relative_path), with `left` passes to go: the
\* result (<<>> for None) and the number of os.path.exists calls so far
RECURSIVE search_upwards(_, _, _, _, _)
search_upwards(disk, current, relative, left, calls) ==
    IF left = 0 THEN [r |-> <<>>, checks |-> calls]
    ELSE IF exists(disk, current \o relative)
    THEN [r |-> current \o relative, checks |-> calls + 1]
    ELSE IF dirname(current) = current THEN [r |-> <<>>, checks |-> calls + 1]
    ELSE search_upwards(disk, dirname(current), relative, left - 1, calls + 1)

\* the game root candidate, tried when the search found nothing
game_candidate(disk, self, relative, searched) ==
    IF searched.r # <<>> THEN searched
    ELSE IF self.game_root # <<>> /\ isdir(disk, self.game_root)
    THEN [r |-> IF exists(disk, self.game_root \o relative)
                THEN self.game_root \o relative ELSE <<>>,
          checks |-> searched.checks + 1]
    ELSE searched

\* resolve after the index has no entry: the direct candidate, the search
\* upwards, the game root candidate
resolve_relative(disk, self, relative) ==
    IF exists(disk, self.base_folder \o relative)
    THEN [r |-> self.base_folder \o relative, checks |-> 1, searches |-> 0]
    ELSE [r |-> game_candidate(disk, self, relative,
                    search_upwards(disk, self.base_folder, relative, 5, 1)).r,
          checks |-> game_candidate(disk, self, relative,
                         search_upwards(disk, self.base_folder, relative, 5, 1)).checks,
          searches |-> 1]

\* what resolve did, once the index has been asked
resolve_done(got, hit, lookups) ==
    [r |-> got.r, hit |-> hit, lookups |-> lookups, checks |-> got.checks,
     searches |-> got.searches]

\* resolve without the lookup in self.cache
resolve_uncached(disk, self, game_path) ==
    IF game_path = <<>>
    THEN resolve_done([r |-> <<>>, checks |-> 0, searches |-> 0], FALSE, 0)
    ELSE IF Lower(basename(game_path)) \in DOMAIN self.file_index
    THEN resolve_done([r |-> self.file_index[Lower(basename(game_path))],
                       checks |-> 0, searches |-> 0], FALSE, 1)
    ELSE resolve_done(resolve_relative(disk, self, relative_path(game_path)),
                      FALSE, 1)

\* resolve(game_path): the result (<<>> for None) and what it did, as
\* [r, hit, lookups, checks, searches]
resolve(disk, self, game_path) ==
    IF game_path = <<>>
    THEN resolve_done([r |-> <<>>, checks |-> 0, searches |-> 0], FALSE, 0)
    ELSE IF game_path \in DOMAIN self.cache
    THEN resolve_done([r |-> self.cache[game_path], checks |-> 0, searches |-> 0],
                      TRUE, 0)
    ELSE IF Lower(basename(game_path)) \in DOMAIN self.file_index
    THEN resolve_done([r |-> self.file_index[Lower(basename(game_path))],
                       checks |-> 0, searches |-> 0], FALSE, 1)
    ELSE resolve_done(resolve_relative(disk, self, relative_path(game_path)),
                      FALSE, 1)

\* the folders, the files and the queries
MaxFiles == 2
BaseFolder == <<"cars", "car">>
GameRoot == <<"game">>
FileNames == {"body.dds", "Body.DDS", "BODY.dds", "skin.dds"}
Folders ==
    {BaseFolder, BaseFolder \o <<"textures">>, BaseFolder \o <<"media", "cars">>,
     <<"cars">>, GameRoot \o <<"media", "cars">>}
AllFiles == {d \o <<n>> : d \in Folders, n \in FileNames}
Disks ==
    {[files |-> fs, dirs |-> ds] :
        fs \in {s \in SUBSET AllFiles : Cardinality(s) <= MaxFiles},
        ds \in {{BaseFolder}, {BaseFolder, GameRoot}}}
GamePaths ==
    {<<>>, <<"Game:", "media", "cars", "body.dds">>, <<"textures", "BODY.dds">>,
     <<"GAME:", "other", "skin.dds">>, <<"skin.dds">>}

NoCallYet ==
    [game_path |-> <<>>, r |-> <<>>, hit |-> FALSE, lookups |-> 0, checks |-> 0,
     searches |-> 0, again |-> FALSE, called |-> FALSE]

InitResolverVars ==
    /\ filesystem = [files |-> {}, dirs |-> {}]
    /\ resolver = SmartPathResolver_init(<<>>, <<>>, <<>>)
    /\ resolved = NoCallYet
    /\ asked = {}

ResolverInit ==
    /\ filesystem \in Disks
    /\ \E game_root \in {<<>>, GameRoot} :
          \E index \in FileIndexes(filesystem, BaseFolder, game_root) :
              resolver = SmartPathResolver_init(BaseFolder, game_root, index)
    /\ resolved = NoCallYet
    /\ asked = {}

\* resolver.resolve(game_path)
Resolve ==
    \E game_path \in GamePaths :
      \E got \in {resolve(filesystem, resolver, game_path)} :
        /\ resolver' = [resolver EXCEPT !.cache = CachePut(@, game_path, got.r)]
        /\ resolved' = [game_path |-> game_path, r |-> got.r, hit |-> got.hit,
                        lookups |-> got.lookups, checks |-> got.checks,
                        searches |-> got.searches,
                        again |-> game_path \in asked, called |-> TRUE]
        /\ asked' = asked \cup {game_path}
        /\ UNCHANGED filesystem

----------------------------------------------------------------------------
(* import_all and import_modelbin.  A .modelbin file is what its blobs     *)
(* decode to: [status, model: the four counts of the Modl blob, meshes:    *)
(* the material_id of each Mesh blob that passes the filters, mati: the Id *)
(* of each MatI blob].                                                      *)

\* Model.deserialize: the counts are stored as read
Model_deserialize(counts) ==
    [meshes_length |-> counts.meshes_length,
     buffers_length |-> counts.buffers_length,
     vertex_layouts_length |-> counts.vertex_layouts_length,
     materials_length |-> counts.materials_length]

\* [MaterialInstance(self.resolver) for _ in range(model.materials_length)]:
\* a material is "new" until it is deserialized
NewMaterials(model) ==
    [i \in 1..Max(0, model.materials_length) |-> "new"]

\* the loop over bundle.blobs[Tag.MatI]:
\* if mat_id < len(materials): materials[mat_id].deserialize(mat_blob)
RECURSIVE DeserializeMaterials(_, _, _)
DeserializeMaterials(materials, mati, i) ==
    IF i > Len(mati) THEN materials
    ELSE IF mati[i] < Len(materials)
    THEN DeserializeMaterials([materials EXCEPT ![mati[i] + 1] = "deserialized"],
                              mati, i + 1)
    ELSE DeserializeMaterials(materials, mati, i + 1)

\* create_blender_objects: materials[mesh.material_id] of each mesh in turn;
\* the objects made before an IndexError stay in the scene
RECURSIVE CreateObjects(_, _, _)
CreateObjects(materials, meshes, i) ==
    IF i > Len(meshes) THEN [objects |-> Len(meshes), exc |-> PyNone]
    ELSE IF meshes[i] >= Len(materials)
    THEN [objects |-> i - 1, exc |-> PyRaise("IndexError")]
    ELSE CreateObjects(materials, meshes, i + 1)

\* the end of import_modelbin: return True, or False from the handler
Imported(materials, meshes, created) ==
    [returned |-> ~IsRaise(created.exc), meshes |-> meshes, materials |-> materials,
     objects |-> created.objects, exc |-> created.exc]

NotImported(e) ==
    [returned |-> FALSE, meshes |-> <<>>, materials |-> <<>>, objects |-> 0,
     exc |-> e]

ImportWith(materials, f) ==
    Imported(materials, f.meshes, CreateObjects(materials, f.meshes, 1))

\* import_modelbin(filepath), with the import_materials option
import_modelbin(f, import_materials) ==
    IF f.status = "unreadable" THEN NotImported(PyRaise("Exception"))
    ELSE IF f.status = "no Modl" THEN NotImported(PyNone)
    ELSE IF import_materials
    THEN ImportWith(DeserializeMaterials(NewMaterials(Model_deserialize(f.model)),
                                         f.mati, 1), f)
    ELSE ImportWith(NewMaterials(Model_deserialize(f.model)), f)

\* the loop body of import_all that gives up at the first failed file
ImportedNextOrStop(b, got) ==
    [b EXCEPT !.n = IF got.returned THEN @ + 1 ELSE Len(b.files),
              !.attempts = Append(@, [file |-> b.n + 1, got |-> got]),
              !.imported_count = IF got.returned THEN @ + 1 ELSE @]

\* the loop body of import_all, after import_modelbin has returned
ImportedNext(b, got) ==
    [b EXCEPT !.n = @ + 1,
              !.attempts = Append(@, [file |-> b.n + 1, got |-> got]),
              !.imported_count = IF got.returned THEN @ + 1 ELSE @]

\* the .modelbin files and the folders of them
MaxBatch == 2
MaxMaterials == 1
ModelCounts ==
    [meshes_length : {0, 1}, buffers_length : {1}, vertex_layouts_length : {1},
     materials_length : (-1)..MaxMaterials]
MeshMaterialIds == {<<>>, <<0>>, <<0, 1>>}
MatIIds == {<<>>, <<0>>}
NoCounts ==
    [meshes_length |-> 0, buffers_length |-> 0, vertex_layouts_length |-> 0,
     materials_length |-> 0]
ModelbinFiles ==
    {[status |-> "ok", model |-> c, meshes |-> ms, mati |-> ids] :
        c \in ModelCounts, ms \in MeshMaterialIds, ids \in MatIIds}
    \cup {[status |-> st, model |-> NoCounts, meshes |-> <<>>, mati |-> <<>>] :
            st \in {"unreadable", "no Modl"}}
Folders_modelbin == UNION {[1..n -> ModelbinFiles] : n \in 0..MaxBatch}

\* ForzaCarFolderImporter.__init__: self.modelbin_files = []
Importer_init(folder, import_materials) ==
    [pc |-> "new", folder |-> folder, import_materials |-> import_materials,
     files |-> <<>>, n |-> 0, imported_count |-> 0, attempts |-> <<>>,
     result |-> ""]

InitImportVars == batch = [Importer_init(<<>>, TRUE) EXCEPT !.pc = "off"]

ImportInit ==
    \E folder \in Folders_modelbin, import_materials \in BOOLEAN :
        batch = Importer_init(folder, import_materials)

\* import_all up to the loop: find_modelbin_files appends the files found
ImportAll ==
    /\ batch.pc = "new"
    /\ batch' = IF Len(batch.files \o batch.folder) > 0
                THEN [batch EXCEPT !.files = @ \o batch.folder, !.pc = "loop"]
                ELSE [batch EXCEPT !.pc = "done", !.result = "CANCELLED"]

\* one pass of `for filepath in self.modelbin_files`
ImportFile ==
    /\ batch.pc = "loop"
    /\ batch.n < Len(batch.files)
    /\ \E got \in {import_modelbin(batch.files[batch.n + 1], batch.import_materials)} :
          batch' = ImportedNext(batch, got)

\* return {'FINISHED'} if imported_count > 0 else {'CANCELLED'}
ImportReturn ==
    /\ batch.pc = "loop"
    /\ batch.n = Len(batch.files)
    /\ batch' = [batch EXCEPT
                    !.pc = "done",
                    !.result = IF batch.imported_count > 0 THEN "FINISHED"
                               ELSE "CANCELLED"]

----------------------------------------------------------------------------
(* setup_vertex_elements and the vertex loop of create_blender_objects,    *)
(* for the elements of one input slot of one vertex buffer                 *)

\* format_sizes.get(elem_desc['format'], 0)
format_sizes(format) ==
    CASE format = 6 -> 12
      [] format \in {10, 13} -> 8
      [] format \in {24, 28, 35, 37} -> 4
      [] OTHER -> 0

\* vertex_buffer_offsets[input_slot] when element i of the layout is set up
RECURSIVE SlotOffset(_, _)
SlotOffset(layout, i) ==
    IF i = 1 THEN 0
    ELSE SlotOffset(layout, i - 1) + format_sizes(layout[i - 1].format)

\* setup_vertex_elements: vb.stream[start:end] with vb_index offset 0 and
\* vertex_id_min + base_vertex_location = 0, for vertices 0..count-1
setup_vertex_elements(layout, vb, stride, count) ==
    [name \in {layout[i].semantic : i \in DOMAIN layout} |->
        LET i == CHOOSE j \in DOMAIN layout : layout[j].semantic = name
        IN [stream |-> BinaryStream(Slice(vb, SlotOffset(layout, i),
                                          count * stride + SlotOffset(layout, i))),
            format |-> layout[i].format,
            advance |-> stride - format_sizes(layout[i].format),
            start |-> SlotOffset(layout, i),
            read |-> <<0, 0>>]]

\* the reads the vertex loop makes on an element's stream for one vertex
ElementReads(name, format) ==
    CASE name = "POSITION0" ->
           IF format = 13 THEN <<"read_sn16", "read_sn16", "read_sn16", "read_sn16">>
           ELSE <<"read_f32", "read_f32", "read_f32">>
      [] name = "NORMAL0" ->
           IF format = 37 THEN <<"read_sn16", "read_sn16">>
           ELSE <<"read_f16", "read_f16", "read_f16">>
      [] name = "COLOR0" -> <<"read_un8", "read_un8", "read_un8", "read_un8">>
      [] OTHER -> <<"read_un16", "read_un16">>

\* the reads in turn: the stream after them and None, the exception a read
\* raised, or "absent" when a read_f32 or read_f16 returned None (the value
\* raises TypeError in the arithmetic that follows the reads)
RECURSIVE ReadValues(_, _, _, _)
ReadValues(s, ops, i, absent) ==
    IF i > Len(ops) THEN [s |-> s, r |-> IF absent THEN PyStr("absent") ELSE PyNone]
    ELSE IF IsRaise(Call(ops[i], s).r) THEN Call(ops[i], s)
    ELSE ReadValues(Call(ops[i], s).s, ops, i + 1, absent \/ IsNone(Call(ops[i], s).r))

\* an element after its reads of one vertex and elem['stream'].seek(advance, 1);
\* read is the byte range of the vertex buffer the reads covered
ElementRead(e, got) ==
    [e EXCEPT !.stream = IF IsRaise(got.r) THEN got.s
                         ELSE seek(got.s, e.advance, 1).s,
              !.read = <<e.start + e.stream.pos, e.start + got.s.pos>>]

\* the order in which the loop body visits the elements
DecodeOrder ==
    <<"POSITION0", "NORMAL0", "TEXCOORD0", "TEXCOORD1", "TEXCOORD2", "TEXCOORD3",
      "TEXCOORD4", "COLOR0">>

\* if skeleton.bones: bone_transform = skeleton.bones[mesh.bone_index]['transform'],
\* and the arithmetic on the vertex: a value that is None raises TypeError
\* there (with bones in the transform, after the bone is looked up)
BoneTransform(v, absent) ==
    LET bone == PyIndex(v.bones, v.bone_index)
    IN IF v.bones # <<>> /\ IsRaise(bone) THEN [v EXCEPT !.pc = "raised", !.exc = bone]
       ELSE IF absent THEN [v EXCEPT !.pc = "raised", !.exc = PyRaise("TypeError")]
       ELSE [v EXCEPT !.k = @ + 1,
                      !.bone_transform = IF v.bones = <<>> THEN PyNone
                                         ELSE [t |-> "list", v |-> bone.v.transform]]

\* one pass of `for vertex_id in range(vertex_id_min, vertex_id_max + 1)`,
\* from element i of DecodeOrder on
RECURSIVE DecodeVertex(_, _, _)
DecodeVertex(v, i, absent) ==
    IF i > Len(DecodeOrder) THEN BoneTransform(v, absent)
    ELSE IF DecodeOrder[i] \notin DOMAIN v.elements THEN DecodeVertex(v, i + 1, absent)
    ELSE LET e == v.elements[DecodeOrder[i]]
             got == ReadValues(e.stream, ElementReads(DecodeOrder[i], e.format), 1, FALSE)
         IN IF IsRaise(got.r)
            THEN [v EXCEPT !.pc = "raised", !.exc = got.r,
                           !.elements[DecodeOrder[i]] = ElementRead(e, got)]
            ELSE DecodeVertex([v EXCEPT !.elements[DecodeOrder[i]] = ElementRead(e, got)],
                              i + 1, absent \/ got.r = PyStr("absent"))

\* the layouts, strides and vertex counts
MaxVertices == 2
MaxSpare == 1
Semantics == {"POSITION0", "NORMAL0", "TEXCOORD0", "COLOR0"}
\* the formats the loop handles for an element: positions as four sn16 (13)
\* or three f32 (6), normals as two sn16 (37) or halves (10: the two formats
\* the loop names at line 1349), UVs as two un16 (35), colours as four un8 (28, 24)
ElementFormats(name) ==
    CASE name = "POSITION0" -> {13, 6}
      [] name = "NORMAL0" -> {37, 10}
      [] name = "COLOR0" -> {28, 24}
      [] OTHER -> {35}
VertexStrides == {8, 12, 16, 24}
VertexElements ==
    UNION {[semantic : {name}, format : ElementFormats(name)] : name \in Semantics}
Layouts ==
    {<<e>> : e \in VertexElements}
    \cup {<<e, f>> : e \in VertexElements,
                    f \in {g \in VertexElements : g.semantic \in {"TEXCOORD0", "COLOR0"}}}

\* the skeletons and the bone indices of the mesh
VertexSkeletons ==
    {<<>>, <<[transform |-> Translate5]>>,
     <<[transform |-> Translate5], [transform |-> TurnScale]>>}
BoneIndices == (-1 - MaxBelowRoot)..MaxBones

InitVertexVars ==
    vertices = [pc |-> "off", stride |-> 0, count |-> 0, k |-> 0,
                elements |-> EmptyDict, bones |-> <<>>, bone_index |-> 0,
                bone_transform |-> PyNone, exc |-> PyNone]

VertexInit ==
    \E layout \in Layouts, stride \in VertexStrides, count \in 1..MaxVertices, spare \in 0..MaxSpare :
        /\ Len(layout) = 2 => layout[1].semantic # layout[2].semantic
        /\ \E bones \in VertexSkeletons, bone_index \in BoneIndices :
              vertices = [pc |-> "loop", stride |-> stride, count |-> count, k |-> 0,
                          elements |-> setup_vertex_elements(
                                           layout, Zeros((count + spare) * stride),
                                           stride, count),
                          bones |-> bones, bone_index |-> bone_index,
                          bone_transform |-> PyNone, exc |-> PyNone]

\* one vertex of the loop
VertexDecode ==
    /\ vertices.pc = "loop"
    /\ vertices.k < vertices.count
    /\ \E got \in {DecodeVertex(vertices, 1, FALSE)} : vertices' = got

\* the loop ends
VertexReturn ==
    /\ vertices.pc = "loop"
    /\ vertices.k = vertices.count
    /\ vertices' = [vertices EXCEPT !.pc = "done"]

----------------------------------------------------------------------------
(* _load_parent_material on parent references that may lead back to a file  *)
(* already open.  Python ends a recursion that has no base case with a      *)
(* RecursionError, an Exception, which the handler of the frame it is       *)
(* raised in catches.  trail records the files opened, in order, and the    *)
(* RecursionErrors raised.                                                  *)

\* deepest stack of deserialize and _load_parent_material frames the
\* interpreter allows (sys.getrecursionlimit(), 1000 unless changed): here
\* just above the longest load of files that refer to no file twice
RecursionLimit == MaxChain + 2

\* the call self._load_parent_material(...) of the top frame, under the
\* interpreter's limit
call_load_parent_material(m) ==
    LET n == Len(m.stack)
        refs == ParentBlobs(m.stack[n].bundle)
    IN IF refs # <<>> /\ ~IsRaise(refs[1]) /\ n >= RecursionLimit
       THEN Caught(m, m.parameters)
       ELSE load_parent_reference(m)

\* the top frame's call is refused by the interpreter
RecursionError(m) ==
    LET n == Len(m.stack)
        refs == ParentBlobs(m.stack[n].bundle)
    IN refs # <<>> /\ ~IsRaise(refs[1]) /\ n >= RecursionLimit

\* material files whose parent reference names any file of the disk
LoopBundles(i) ==
    {[NoBlobs EXCEPT ![Tag_MATI] = ref, ![Tag_MTPR] = prm] :
        ref \in {<<>>, <<PyStr(GonePath)>>} \cup {<<PyStr(ParentPath(j))>> : j \in 1..MaxChain},
        prm \in {<<>>, << <<LevelParam(PlainHash, i)>> >>}}
LoopFiles(i) ==
    {[status |-> s, bundle |-> NoBlobs] : s \in {"unresolved", "truncated"}}
    \cup {[status |-> "ok", bundle |-> b] : b \in LoopBundles(i)}
RECURSIVE LoopDisks(_)
LoopDisks(i) ==
    IF i > MaxChain THEN {<<>>}
    ELSE {<<f>> \o rest : f \in LoopFiles(i), rest \in LoopDisks(i + 1)}

InitChainVars ==
    trail = [visits |-> <<>>, recursion_errors |-> 0]

ChainInit ==
    /\ material = MaterialInstance_init
    /\ mat_blob \in {[name |-> PyStr(<<"body">>), status |-> "ok", bundle |-> b] :
                        b \in LoopBundles(0)}
    /\ mat_disk \in LoopDisks(1)
    /\ trail = [visits |-> <<>>, recursion_errors |-> 0]

ChainDeserialize ==
    /\ MaterialDeserialize
    /\ UNCHANGED trail

\* the parent reference of the top frame and its call
ChainParent ==
    /\ material.pc = "run"
    /\ material.stack[Len(material.stack)].at = "parent"
    /\ material' = call_load_parent_material(material)
    /\ trail' = [trail EXCEPT !.recursion_errors =
                    IF RecursionError(material) THEN @ + 1 ELSE @]
    /\ UNCHANGED <<mat_blob, mat_disk>>

\* _load_parent_material opens its file: the file is visited if it was read
ChainOpen ==
    /\ MaterialOpen
    /\ trail' = [trail EXCEPT !.visits =
                    IF Len(material'.stack) = Len(material.stack)
                    THEN Append(@, material.stack[Len(material.stack)].path.v)
                    ELSE @]

ChainParams ==
    /\ MaterialParams
    /\ UNCHANGED trail

----------------------------------------------------------------------------
(* The module globals (FORZA_LOG_MESSAGES, FORZA_LAST_MESH_COUNT,           *)
(* FORZA_LAST_MATERIAL_COUNT), forza_log and the import operator            *)
(* IMPORT_OT_forza_car_folder.execute.  A log message is the number of its  *)
(* emission: the n-th message appended since the add-on was loaded is n.    *)

FORZA_DEBUG == TRUE
FORZA_LOG_LIMIT == 400

\* forza_log that keeps the oldest messages
forza_log_oldest(log, text) ==
    IF ~FORZA_DEBUG THEN log
    ELSE IF Len(log) + 1 > FORZA_LOG_LIMIT
    THEN SubSeq(Append(log, text), 1, FORZA_LOG_LIMIT)
    ELSE Append(log, text)

\* forza_log: FORZA_LOG_MESSAGES after the call
forza_log(log, text) ==
    IF ~FORZA_DEBUG THEN log
    ELSE IF Len(log) + 1 > FORZA_LOG_LIMIT
    THEN SubSeq(Append(log, text), Len(log) + 2 - FORZA_LOG_LIMIT, Len(log) + 1)
    ELSE Append(log, text)

\* count calls of forza_log, with the messages next, next + 1, ...
RECURSIVE forza_logs(_, _, _)
forza_logs(log, next, count) ==
    IF count = 0 THEN log
    ELSE forza_logs(forza_log(log, next), next + 1, count - 1)

\* most runs of the operator that get past its validation, most meshes one
\* run creates, most forza_log calls of one import_all beyond those of
\* SmartPathResolver.__init__, and most messages emitted beyond the limit
MaxRuns == 2
MaxRunMeshes == 2
MaxRunLogs == 1
MaxOverflow == 12

\* the messages of a run before import_all: two appended by execute itself
\* (lines 1936-1937), four forza_log calls (1940-1943), and the two of
\* SmartPathResolver._build_file_index without a game root (150, 165)
RunAppends == 2
RunLogs == 6

\* execute from line 1932 on: its two assignments bind names local to execute
\* (the function has no global statement), the import then counts in the
\* module globals.  run: [created: the meshes create_blender_objects creates,
\* import_materials, added: the materials they add to bpy.data.materials,
\* logs: the forza_log calls of import_all]
execute(g, run) ==
    LET local_mesh_count == 0
        local_material_count == g.materials
        appended == g.FORZA_LOG_MESSAGES \o <<g.emitted + 1, g.emitted + 2>>
        log == forza_logs(appended, g.emitted + RunAppends + 1, RunLogs + run.logs)
    IN [g EXCEPT
          !.FORZA_LOG_MESSAGES = log,
          !.emitted = @ + RunAppends + (IF FORZA_DEBUG THEN RunLogs + run.logs ELSE 0),
          !.FORZA_LAST_MESH_COUNT = @ + run.created,
          !.materials = @ + run.added,
          !.FORZA_LAST_MATERIAL_COUNT =
              IF run.import_materials /\ run.created > 0 THEN g.materials + run.added ELSE @,
          !.runs = @ + 1,
          !.created = run.created]

Runs ==
    {r \in [created : 0..MaxRunMeshes, import_materials : BOOLEAN,
            added : {0, 1}, logs : 0..MaxRunLogs] :
        /\ r.added <= r.created
        /\ ~r.import_materials => r.added = 0}

InitOperatorVars ==
    session = [FORZA_LOG_MESSAGES |-> <<>>, emitted |-> 0,
               FORZA_LAST_MESH_COUNT |-> 0, FORZA_LAST_MATERIAL_COUNT |-> 0,
               materials |-> 0, runs |-> 0, created |-> 0]

\* a forza_log call outside a run of the operator
ForzaLog ==
    /\ session.emitted < FORZA_LOG_LIMIT + MaxOverflow
    /\ \E log \in {forza_log(session.FORZA_LOG_MESSAGES, session.emitted + 1)} :
          session' = [session EXCEPT !.FORZA_LOG_MESSAGES = log,
                                     !.emitted = IF FORZA_DEBUG THEN @ + 1 ELSE @]

\* one run of the operator: CANCELLED before line 1932 when the folder or the
\* LOD selection is not valid
Execute ==
    \E valid \in BOOLEAN, run \in Runs :
        /\ session.runs < MaxRuns
        /\ session.emitted + RunAppends + RunLogs + run.logs <= FORZA_LOG_LIMIT + MaxOverflow
        /\ IF valid THEN \E after \in {execute(session, run)} : session' = after
           ELSE UNCHANGED session

----------------------------------------------------------------------------
(* _load_parameters and _extract_material_properties on one decoded         *)
(* ShaderParameter.  The hash of the record on the stream is kept below     *)
(* 2^31, so the hash the parameter is stored under is chosen apart from it. *)

\* _load_parameters on a block of one parameter: param.deserialize(stream),
\* then self.parameters[param.hash] = param unless deserialize raised
load_parameter(m, sp, h) ==
    IF sp.pc = "raised" THEN m
    ELSE [m EXCEPT !.parameters =
             ParametersPut(@, [hash |-> h, value |-> sp.st.value, path |-> sp.st.path])]

ExtractInit ==
    /\ ParamInit
    /\ material = MaterialInstance_init
    /\ mat_blob = [name |-> PyNone, status |-> "ok", bundle |-> NoBlobs]
    /\ mat_disk = <<>>

ExtractDeserialize ==
    /\ ParamDeserialize
    /\ UNCHANGED materialVars

ExtractProperties ==
    /\ shader_param.pc \in {"done", "raised"}
    /\ material.pc = "idle"
    /\ \E h \in {DIFFUSE_COLOR, PlainHash} :
          material' = [extract_material_properties(load_parameter(material, shader_param, h))
                          EXCEPT !.pc = "done"]
    /\ UNCHANGED <<shader_param, mat_blob, mat_disk>>

----------------------------------------------------------------------------
(* SmartPathResolver.resolve on a file system that changes between calls.  *)
(* history.first holds, for every path that has resolved, the result of    *)
(* the first call that resolved it.                                        *)

\* most changes of the file system after the resolver was built
MaxChanges == 1

\* the file systems before and after a change: at most one file, named in
\* lower case
CacheDisks ==
    {d \in Disks :
        /\ Cardinality(d.files) <= 1
        /\ \A f \in d.files : basename(f) \in {"body.dds", "skin.dds"}}

InitCacheVars ==
    history = [first |-> <<>>, changes |-> 0]

CacheInit ==
    /\ ResolverInit
    /\ filesystem \in CacheDisks
    /\ history = [first |-> <<>>, changes |-> 0]

\* resolver.resolve(game_path)
CacheResolve ==
    /\ Resolve
    /\ history' = [history EXCEPT !.first =
                      IF resolved'.r = <<>> \/ resolved'.game_path \in DOMAIN @ THEN @
                      ELSE [p \in DOMAIN @ \cup {resolved'.game_path} |->
                               IF p = resolved'.game_path THEN resolved'.r ELSE @[p]]]

\* files are created and deleted under the folders; the resolver is not told
FilesystemChange ==
    /\ history.changes < MaxChanges
    /\ \E d \in CacheDisks :
          /\ d.dirs = filesystem.dirs
          /\ d # filesystem
          /\ filesystem' = d
    /\ history' = [history EXCEPT !.changes = @ + 1]
    /\ UNCHANGED <<resolver, resolved, asked>>

----------------------------------------------------------------------------
(* Specifications *)

InitVersion ==
    /\ InitVersionVars
    /\ InitStreamVars
    /\ InitBundleVars
    /\ InitMeshVars
    /\ InitSkelVars
    /\ InitMaterialVars
    /\ InitParamVars
    /\ InitTextureVars
    /\ InitResolverVars
    /\ InitImportVars
    /\ InitVertexVars
    /\ InitChainVars
    /\ InitOperatorVars
    /\ InitCacheVars
OthersVersion == <<streamVars, bundleVars, meshVars, skelVars, materialVars, paramVars,
    textureVars, resolverVars, importVars, vertexVars, chainVars,
    operatorVars, cacheVars>>
NextVersion ==
    \/ VersionDeserialize /\ UNCHANGED OthersVersion
    \/ VersionIsAtLeast /\ UNCHANGED OthersVersion
SpecVersion == InitVersion /\ [][NextVersion]_vars

InitStream ==
    /\ StreamInit
    /\ InitVersionVars
    /\ InitBundleVars
    /\ InitMeshVars
    /\ InitSkelVars
    /\ InitMaterialVars
    /\ InitParamVars
    /\ InitTextureVars
    /\ InitResolverVars
    /\ InitImportVars
    /\ InitVertexVars
    /\ InitChainVars
    /\ InitOperatorVars
    /\ InitCacheVars
OthersStream == <<versionVars, bundleVars, meshVars, skelVars, materialVars, paramVars,
    textureVars, resolverVars, importVars, vertexVars, chainVars,
    operatorVars, cacheVars>>
NextStream ==
    \/ StreamRead /\ UNCHANGED OthersStream
    \/ StreamSeek /\ UNCHANGED OthersStream
SpecStream == InitStream /\ [][NextStream]_vars

InitBundle ==
    /\ BundleInit
    /\ InitVersionVars
    /\ InitMeshVars
    /\ InitSkelVars
    /\ InitMaterialVars
    /\ InitParamVars
    /\ InitTextureVars
    /\ InitResolverVars
    /\ InitImportVars
    /\ InitVertexVars
    /\ InitChainVars
    /\ InitOperatorVars
    /\ InitCacheVars
OthersBundle == <<versionVars, meshVars, skelVars, materialVars, paramVars, textureVars,
    resolverVars, importVars, vertexVars, chainVars, operatorVars, cacheVars>>
NextBundle ==
    \/ BundleHeader /\ UNCHANGED OthersBundle
    \/ BundleBlob /\ UNCHANGED OthersBundle
    \/ BundleReturn /\ UNCHANGED OthersBundle
SpecBundle == InitBundle /\ [][NextBundle]_vars

InitMesh ==
    /\ MeshInit
    /\ InitVersionVars
    /\ InitStreamVars
    /\ InitBundleVars
    /\ InitSkelVars
    /\ InitMaterialVars
    /\ InitParamVars
    /\ InitTextureVars
    /\ InitResolverVars
    /\ InitImportVars
    /\ InitVertexVars
    /\ InitChainVars
    /\ InitOperatorVars
    /\ InitCacheVars
OthersMesh == <<versionVars, streamVars, bundleVars, skelVars, materialVars, paramVars,
    textureVars, resolverVars, importVars, vertexVars, chainVars,
    operatorVars, cacheVars>>
NextMesh ==
    \/ CreateMesh /\ UNCHANGED OthersMesh
    \/ CreateReturn /\ UNCHANGED OthersMesh
SpecMesh == InitMesh /\ [][NextMesh]_vars

InitSkel ==
    /\ SkelInit
    /\ InitVersionVars
    /\ InitStreamVars
    /\ InitBundleVars
    /\ InitMeshVars
    /\ InitMaterialVars
    /\ InitParamVars
    /\ InitTextureVars
    /\ InitResolverVars
    /\ InitImportVars
    /\ InitVertexVars
    /\ InitChainVars
    /\ InitOperatorVars
    /\ InitCacheVars
OthersSkel == <<versionVars, streamVars, bundleVars, meshVars, materialVars, paramVars,
    textureVars, resolverVars, importVars, vertexVars, chainVars,
    operatorVars, cacheVars>>
NextSkel ==
    \/ SkeletonBone /\ UNCHANGED OthersSkel
    \/ SkeletonReturn /\ UNCHANGED OthersSkel
SpecSkel == InitSkel /\ [][NextSkel]_vars

InitMaterial ==
    /\ MaterialInit
    /\ InitVersionVars
    /\ InitStreamVars
    /\ InitBundleVars
    /\ InitMeshVars
    /\ InitSkelVars
    /\ InitParamVars
    /\ InitTextureVars
    /\ InitResolverVars
    /\ InitImportVars
    /\ InitVertexVars
    /\ InitChainVars
    /\ InitOperatorVars
    /\ InitCacheVars
OthersMaterial == <<versionVars, streamVars, bundleVars, meshVars, skelVars, paramVars,
    textureVars, resolverVars, importVars, vertexVars, chainVars,
    operatorVars, cacheVars>>
NextMaterial ==
    \/ MaterialDeserialize /\ UNCHANGED OthersMaterial
    \/ MaterialParent /\ UNCHANGED OthersMaterial
    \/ MaterialOpen /\ UNCHANGED OthersMaterial
    \/ MaterialParams /\ UNCHANGED OthersMaterial
SpecMaterial == InitMaterial /\ [][NextMaterial]_vars

InitParam ==
    /\ ParamInit
    /\ InitVersionVars
    /\ InitStreamVars
    /\ InitBundleVars
    /\ InitMeshVars
    /\ InitSkelVars
    /\ InitMaterialVars
    /\ InitTextureVars
    /\ InitResolverVars
    /\ InitImportVars
    /\ InitVertexVars
    /\ InitChainVars
    /\ InitOperatorVars
    /\ InitCacheVars
OthersParam == <<versionVars, streamVars, bundleVars, meshVars, skelVars, materialVars,
    textureVars, resolverVars, importVars, vertexVars, chainVars,
    operatorVars, cacheVars>>
NextParam ==
    \/ ParamDeserialize /\ UNCHANGED OthersParam
SpecParam == InitParam /\ [][NextParam]_vars

InitTexture ==
    /\ TextureInit
    /\ InitVersionVars
    /\ InitStreamVars
    /\ InitBundleVars
    /\ InitMeshVars
    /\ InitSkelVars
    /\ InitMaterialVars
    /\ InitParamVars
    /\ InitResolverVars
    /\ InitImportVars
    /\ InitVertexVars
    /\ InitChainVars
    /\ InitOperatorVars
    /\ InitCacheVars
OthersTexture == <<versionVars, streamVars, bundleVars, meshVars, skelVars, materialVars,
    paramVars, resolverVars, importVars, vertexVars, chainVars, operatorVars,
    cacheVars>>
NextTexture ==
    \/ TextureLoad /\ UNCHANGED OthersTexture
SpecTexture == InitTexture /\ [][NextTexture]_vars

InitResolver ==
    /\ ResolverInit
    /\ InitVersionVars
    /\ InitStreamVars
    /\ InitBundleVars
    /\ InitMeshVars
    /\ InitSkelVars
    /\ InitMaterialVars
    /\ InitParamVars
    /\ InitTextureVars
    /\ InitImportVars
    /\ InitVertexVars
    /\ InitChainVars
    /\ InitOperatorVars
    /\ InitCacheVars
OthersResolver == <<versionVars, streamVars, bundleVars, meshVars, skelVars, materialVars,
    paramVars, textureVars, importVars, vertexVars, chainVars, operatorVars,
    cacheVars>>
NextResolver ==
    \/ Resolve /\ UNCHANGED OthersResolver
SpecResolver == InitResolver /\ [][NextResolver]_vars

InitImport ==
    /\ ImportInit
    /\ InitVersionVars
    /\ InitStreamVars
    /\ InitBundleVars
    /\ InitMeshVars
    /\ InitSkelVars
    /\ InitMaterialVars
    /\ InitParamVars
    /\ InitTextureVars
    /\ InitResolverVars
    /\ InitVertexVars
    /\ InitChainVars
    /\ InitOperatorVars
    /\ InitCacheVars
OthersImport == <<versionVars, streamVars, bundleVars, meshVars, skelVars, materialVars,
    paramVars, textureVars, resolverVars, vertexVars, chainVars,
    operatorVars, cacheVars>>
NextImport ==
    \/ ImportAll /\ UNCHANGED OthersImport
    \/ ImportFile /\ UNCHANGED OthersImport
    \/ ImportReturn /\ UNCHANGED OthersImport
SpecImport == InitImport /\ [][NextImport]_vars

InitVertex ==
    /\ VertexInit
    /\ InitVersionVars
    /\ InitStreamVars
    /\ InitBundleVars
    /\ InitMeshVars
    /\ InitSkelVars
    /\ InitMaterialVars
    /\ InitParamVars
    /\ InitTextureVars
    /\ InitResolverVars
    /\ InitImportVars
    /\ InitChainVars
    /\ InitOperatorVars
    /\ InitCacheVars
OthersVertex == <<versionVars, streamVars, bundleVars, meshVars, skelVars, materialVars,
    paramVars, textureVars, resolverVars, importVars, chainVars,
    operatorVars, cacheVars>>
NextVertex ==
    \/ VertexDecode /\ UNCHANGED OthersVertex
    \/ VertexReturn /\ UNCHANGED OthersVertex
SpecVertex == InitVertex /\ [][NextVertex]_vars

InitChain ==
    /\ ChainInit
    /\ InitVersionVars
    /\ InitStreamVars
    /\ InitBundleVars
    /\ InitMeshVars
    /\ InitSkelVars
    /\ InitParamVars
    /\ InitTextureVars
    /\ InitResolverVars
    /\ InitImportVars
    /\ InitVertexVars
    /\ InitOperatorVars
    /\ InitCacheVars
OthersChain == <<versionVars, streamVars, bundleVars, meshVars, skelVars, paramVars,
    textureVars, resolverVars, importVars, vertexVars, operatorVars, cacheVars>>
NextChain ==
    \/ ChainDeserialize /\ UNCHANGED OthersChain
    \/ ChainParent /\ UNCHANGED OthersChain
    \/ ChainOpen /\ UNCHANGED OthersChain
    \/ ChainParams /\ UNCHANGED OthersChain
SpecChain == InitChain /\ [][NextChain]_vars /\ WF_vars(NextChain)

InitOperator ==
    /\ InitOperatorVars
    /\ InitVersionVars
    /\ InitStreamVars
    /\ InitBundleVars
    /\ InitMeshVars
    /\ InitSkelVars
    /\ InitMaterialVars
    /\ InitParamVars
    /\ InitTextureVars
    /\ InitResolverVars
    /\ InitImportVars
    /\ InitVertexVars
    /\ InitChainVars
    /\ InitCacheVars
OthersOperator == <<versionVars, streamVars, bundleVars, meshVars, skelVars, materialVars,
    paramVars, textureVars, resolverVars, importVars, vertexVars, chainVars,
    cacheVars>>
NextOperator ==
    \/ ForzaLog /\ UNCHANGED OthersOperator
    \/ Execute /\ UNCHANGED OthersOperator
SpecOperator == InitOperator /\ [][NextOperator]_vars

InitExtract ==
    /\ ExtractInit
    /\ InitVersionVars
    /\ InitStreamVars
    /\ InitBundleVars
    /\ InitMeshVars
    /\ InitSkelVars
    /\ InitTextureVars
    /\ InitResolverVars
    /\ InitImportVars
    /\ InitVertexVars
    /\ InitChainVars
    /\ InitOperatorVars
    /\ InitCacheVars
OthersExtract == <<versionVars, streamVars, bundleVars, meshVars, skelVars, textureVars,
    resolverVars, importVars, vertexVars, chainVars, operatorVars, cacheVars>>
NextExtract ==
    \/ ExtractDeserialize /\ UNCHANGED OthersExtract
    \/ ExtractProperties /\ UNCHANGED OthersExtract
SpecExtract == InitExtract /\ [][NextExtract]_vars

InitCache ==
    /\ CacheInit
    /\ InitVersionVars
    /\ InitStreamVars
    /\ InitBundleVars
    /\ InitMeshVars
    /\ InitSkelVars
    /\ InitMaterialVars
    /\ InitParamVars
    /\ InitTextureVars
    /\ InitImportVars
    /\ InitVertexVars
    /\ InitChainVars
    /\ InitOperatorVars
OthersCache == <<versionVars, streamVars, bundleVars, meshVars, skelVars, materialVars,
    paramVars, textureVars, importVars, vertexVars, chainVars, operatorVars>>
NextCache ==
    \/ CacheResolve /\ UNCHANGED OthersCache
    \/ FilesystemChange /\ UNCHANGED OthersCache
SpecCache == InitCache /\ [][NextCache]_vars

----------------------------------------------------------------------------
(* Claims *)

\* lexicographic order of (major, minor) pairs of bytes, as one number
LexGE(a, b, c, d) == a * 256 + b >= c * 256 + d

\* C1: for a Version of 8-bit values and every test pair (M, m),
\* is_at_least(M, m) is true exactly when (major, minor) >= (M, m)
\* lexicographically; (1,9)>=(1,9), not (1,9)>=(2,0), (2,0)>=(1,99).
C1_IsAtLeastLex ==
    LET self == version
        IsCall(a, b, c, d) ==
            /\ self = [major |-> PyInt(a), minor |-> PyInt(b)]
            /\ v_call.major = c /\ v_call.minor = d
    IN (v_call.called /\ self.major.t = "int" /\ self.minor.t = "int") =>
        /\ v_call.result = PyBool(LexGE(self.major.v, self.minor.v,
                                        v_call.major, v_call.minor))
        /\ IsCall(1, 9, 1, 9) => v_call.result = PyBool(TRUE)
        /\ IsCall(1, 9, 2, 0) => v_call.result = PyBool(FALSE)
        /\ IsCall(2, 0, 1, 99) => v_call.result = PyBool(TRUE)

C1_Witness ==
    /\ v_call.called
    /\ version = [major |-> PyInt(2), minor |-> PyInt(0)]
    /\ v_call.major = 1 /\ v_call.minor = 99
    /\ v_call.result = PyBool(TRUE)

\* C2: a fixed-width read with fewer bytes left than its width (none, or
\* some but not enough) returns the absent value and raises no error.
C2_ShortReadAbsent ==
    (last.op \in FixedReads /\ Remaining(last.pre) < Width(last.op)) =>
        last.r = PyNone

\* C3: a derived read with the cursor at or past the end of the buffer
\* raises no error and yields an absent, zero or default value.
C3_DerivedReadAtEnd ==
    (last.op \in DerivedReads /\ last.pre.pos >= Len(last.pre.buf)) =>
        \/ last.r = PyNone
        \/ last.r = PyInt(0)
        \/ last.r = PyStr(<<>>)
        \/ last.r.t = "frac" /\ last.r.v[1] = 0

\* the blobs of the file that carry tag T, in file order
RECURSIVE FileBlobsTagged(_, _)
FileBlobsTagged(T, i) ==
    IF i > Len(file.blobs) THEN <<>>
    ELSE (IF file.blobs[i].tag = T THEN <<i>> ELSE <<>>) \o FileBlobsTagged(T, i + 1)

\* the decoded blobs, each with the index (1..) of the file blob it was read from:
\* the file stores the index in the blob's minor version
DecodedBlobs ==
    {b \in UNION {{bundle.blobs[k][j] : j \in 1..Len(bundle.blobs[k])} :
                    k \in DOMAIN bundle.blobs} : TRUE}

\* the bytes [from, from + size) of the buffer the Bundle was read from
BufferBytes(from, size) == [k \in 1..size |-> stream.buf[from + k]]

\* C4: decoding a whole (not truncated) file yields, for each tag, exactly
\* the blobs that carry it, in file order, and each blob's payload view is
\* the bytes [data_offset, data_offset + data_size) of the buffer, which are
\* the payload written for that blob, whatever the reader's cursor is.
C4_BundleRoundTrip ==
    (bundle.pc = "done" /\ ~Truncated(file)) =>
        /\ DOMAIN bundle.blobs = {PyInt(file.blobs[i].tag) : i \in 1..Len(file.blobs)}
        /\ \A T \in BlobTags :
              LET got == Blobs(bundle, PyInt(T))
                  want == FileBlobsTagged(T, 1)
              IN /\ Len(got) = Len(want)
                 /\ \A k \in 1..Len(want) :
                       /\ got[k].tag = PyInt(T)
                       /\ got[k].version.minor = PyInt(want[k])
                       /\ got[k].stream.pos = 0
                       /\ got[k].stream.buf = Payload(want[k], file.blobs[want[k]].size)
                       /\ got[k].stream.buf =
                              BufferBytes(got[k].data_offset, got[k].data_size)

C4_Witness ==
    /\ bundle.pc = "done" /\ ~Truncated(file)
    /\ Len(file.blobs) = 3
    /\ file.blobs[1].tag = Tag_Mesh /\ file.blobs[2].tag = Tag_VerB
    /\ file.blobs[3].tag = Tag_Mesh
    /\ Len(Blobs(bundle, PyInt(Tag_Mesh))) = 2
    /\ Len(Blobs(bundle, PyInt(Tag_Mesh))[2].stream.buf) > 0
    /\ stream.pos > 0

\* where metadata entry i (0..) of file blob b lies: its own record's offset
\* in the buffer, and its size and offset fields
EntryBase(b, i) == BodyOffset(file.version, file.blobs, b) + 8 * i
EntryBytes(b, i) ==
    BufferBytes(EntryBase(b, i) + file.blobs[b].meta[i + 1].offset,
                file.blobs[b].meta[i + 1].size)

\* the last entry (0..) of file blob b that carries tag T
LastEntry(b, T) ==
    CHOOSE i \in 0..(Len(file.blobs[b].meta) - 1) :
        /\ file.blobs[b].meta[i + 1].tag = T
        /\ \A j \in (i + 1)..(Len(file.blobs[b].meta) - 1) :
              file.blobs[b].meta[j + 1].tag # T

\* C5: a blob's metadata mapping has exactly one entry per distinct tag of
\* its metadata records, and that entry is the last record with the tag.
C5_MetadataLastWins ==
    \A blob \in DecodedBlobs :
        LET b == blob.version.minor.v
            meta == file.blobs[b].meta
        IN /\ DOMAIN blob.metadata = {PyInt(meta[k].tag) : k \in 1..Len(meta)}
           /\ \A key \in DOMAIN blob.metadata :
                 /\ blob.metadata[key].tag = key
                 /\ blob.metadata[key].stream.buf = EntryBytes(b, LastEntry(b, key.v))

C5_Witness ==
    \E blob \in DecodedBlobs :
        LET meta == file.blobs[blob.version.minor.v].meta
        IN /\ Len(meta) = 2
           /\ meta[1].tag = Tag_Id /\ meta[2].tag = Tag_Id
           /\ meta[1] # meta[2]
           /\ DOMAIN blob.metadata = {PyInt(Tag_Id)}

\* the Metadata the code reads from record i (0..) of a decoded blob
RecordMetadata(blob, i) ==
    Metadata_deserialize(MetadataRecord(stream.buf, blob.metadata_offset.v, i))

\* C6 (as stated): the byte view of every metadata record i is the range
\* [metadata_offset + offset, metadata_offset + offset + size) of the buffer:
\* the base does not depend on i.
C6_ViewFromTableStart ==
    \A blob \in DecodedBlobs :
        \A i \in 0..(blob.metadata_length - 1) :
            LET e == file.blobs[blob.version.minor.v].meta[i + 1]
            IN RecordMetadata(blob, i).stream.buf =
                   BufferBytes(blob.metadata_offset.v + e.offset, e.size)

\* C6 (amended): the byte view of metadata record i is the range
\* [metadata_offset + 8*i + offset, metadata_offset + 8*i + offset + size) of
\* the buffer, size being the high 12 bits of the packed field: the offset
\* counts from the record's own first byte.  The entry the mapping keeps for
\* a tag is the view of the last record with that tag.
C6_ViewFromRecordStart ==
    \A blob \in DecodedBlobs :
        /\ blob.metadata_length = Len(file.blobs[blob.version.minor.v].meta)
        /\ \A i \in 0..(blob.metadata_length - 1) :
              LET e == file.blobs[blob.version.minor.v].meta[i + 1]
                  m == RecordMetadata(blob, i)
              IN /\ m.stream.pos = 0
                 /\ m.stream.buf =
                        BufferBytes(blob.metadata_offset.v + 8 * i + e.offset, e.size)
                 /\ (i = LastEntry(blob.version.minor.v, e.tag))
                        => blob.metadata[PyInt(e.tag)] = m

C6_Witness ==
    \E blob \in DecodedBlobs :
        /\ blob.metadata_length = 2
        /\ PyInt(Tag_Name) \in DOMAIN blob.metadata
        /\ file.blobs[blob.version.minor.v].meta[2].tag = Tag_Name
        /\ Len(blob.metadata[PyInt(Tag_Name)].stream.buf) = 2

Bit(x, k) == (x \div Pow2(k)) % 2 = 1

Drawn ==
    SubSeq(importer.ids, step.mesh.start_index_location + 1,
           step.mesh.start_index_location + step.mesh.index_count)

SeqMin(d) == CHOOSE m \in {d[k] : k \in 1..Len(d)} : \A k \in 1..Len(d) : m <= d[k]

\* C8: the face list of a mesh with index sequence d[0..n-1] and least index
\* m has floor(n/3) triangles, triangle i being
\* (d[3i]-m, d[3i+2]-m, d[3i+1]-m); [0,1,2,3,4,5] gives [(0,2,1),(3,5,4)].
C8_TriangleAssembly ==
    (step.outcome = "created") =>
        LET d == Drawn
            n == step.mesh.index_count
        IN /\ Len(d) = n /\ step.draw_indices = d
           /\ Len(step.faces) = n \div 3
           /\ \A i \in 0..((n \div 3) - 1) :
                 step.faces[i + 1] = <<d[3 * i + 1] - SeqMin(d), d[3 * i + 3] - SeqMin(d),
                                       d[3 * i + 2] - SeqMin(d)>>
           /\ d = <<0, 1, 2, 3, 4, 5>> => step.faces = <<<<0, 2, 1>>, <<3, 5, 4>>>>

C8_Witness ==
    /\ step.outcome = "created"
    /\ Drawn = <<0, 1, 2, 3, 4, 5>>
    /\ step.faces = <<<<0, 2, 1>>, <<3, 5, 4>>>>

C8_WitnessRebased ==
    /\ step.outcome = "created"
    /\ Drawn = <<4, 3, 2>>
    /\ step.faces = <<<<2, 0, 1>>>>

\* the product A x B of two 4x4 matrices
MatProduct(A, B) ==
    [i \in 1..4 |-> [j \in 1..4 |->
        A[i][1] * B[1][j] + A[i][2] * B[2][j] + A[i][3] * B[3][j] + A[i][4] * B[4][j]]]

\* C9: every loaded bone i whose parent index p has 0 <= p < i stores
\* local(i) x stored(p); every bone with parent index -1 stores its local
\* matrix; the identity child of a root translated by (5,0,0) stores the
\* root's transform.
C9_SkeletonComposition ==
    /\ \A i \in 1..Len(skeleton.bones) :
          LET p == skel_blob[i].parent_index
          IN /\ (0 <= p /\ p < i - 1) =>
                    skeleton.bones[i].transform =
                        MatProduct(skel_blob[i].local, skeleton.bones[p + 1].transform)
             /\ p = -1 => skeleton.bones[i].transform = skel_blob[i].local
    /\ (/\ Len(skeleton.bones) >= 2
        /\ skel_blob[1] = [parent_index |-> -1, local |-> Translate5]
        /\ skel_blob[2] = [parent_index |-> 0, local |-> Identity])
           => /\ skeleton.bones[2].transform = skeleton.bones[1].transform
              /\ skeleton.bones[2].transform = Translate5

C9_Witness ==
    /\ Len(skeleton.bones) = 3
    /\ skel_blob[1] = [parent_index |-> -1, local |-> Translate5]
    /\ skel_blob[2] = [parent_index |-> 0, local |-> TurnScale]
    /\ skel_blob[3] = [parent_index |-> 1, local |-> Translate5]
    /\ skeleton.bones[3].transform[4] = <<5, 10, 0, 1>>

C9_WitnessChain ==
    /\ Len(skeleton.bones) = 2
    /\ skel_blob[1] = [parent_index |-> -1, local |-> Translate5]
    /\ skel_blob[2] = [parent_index |-> 0, local |-> Identity]
    /\ skeleton.bones[2].transform = Translate5

\* C10: a bone whose parent index is at least the number of bones loaded
\* before it is appended with its local matrix, raises no error, and the
\* bones after it are loaded.
C10_ForwardParent ==
    /\ \A i \in 1..Len(skel_blob) :
          skel_blob[i].parent_index >= i - 1 =>
              /\ i <= Len(skeleton.bones)
              /\ skeleton.bones[i].transform = skel_blob[i].local
    /\ skeleton.pc = "raised" =>
          /\ Len(skeleton.bones) = Len(skel_blob) - 1
          /\ skel_blob[Len(skel_blob)].parent_index < -1
    /\ skeleton.pc # "raised" => Len(skeleton.bones) = Len(skel_blob)

C10_Witness ==
    /\ skeleton.pc = "done"
    /\ Len(skeleton.bones) = 3
    /\ skel_blob[1].parent_index = 2 /\ skel_blob[1].local = TurnScale
    /\ skel_blob[2].parent_index = 0 /\ skel_blob[2].local = Translate5
    /\ skeleton.bones[2].transform = MatProduct(Translate5, TurnScale)
    /\ skeleton.bones[1].transform = TurnScale

\* the parameter block a bundle contributes
OwnBlock(b) == IF ParamBlobs(b) = <<>> THEN <<>> ELSE ParamBlobs(b)[1]

\* the block writes hash h; the last parameter it writes under h
Writes(block, h) == \E k \in 1..Len(block) : block[k].hash = h
LastWritten(block, h) ==
    block[CHOOSE k \in 1..Len(block) :
            /\ block[k].hash = h
            /\ \A j \in (k + 1)..Len(block) : block[j].hash # h]

\* every file of the chain below bundle b loads, file i being its parent
RECURSIVE ChainLoads(_, _, _)
ChainLoads(b, disk, i) ==
    \/ ParentBlobs(b) = <<>>
    \/ /\ i <= MaxChain
       /\ RefersTo(b, i)
       /\ disk[i].status = "ok"
       /\ ChainLoads(disk[i].bundle, disk, i + 1)

\* the bundles of such a chain, most derived first
RECURSIVE ChainLevels(_, _, _)
ChainLevels(b, disk, i) ==
    <<b>> \o (IF ParentBlobs(b) = <<>> THEN <<>>
              ELSE ChainLevels(disk[i].bundle, disk, i + 1))

AllHashes == {PlainHash, OtherHash, DIFFUSE_TEXTURE, DIFFUSE_COLOR, NORMAL_TEXTURE}

MaterialLoaded ==
    /\ material.pc = "done"
    /\ mat_blob.status = "ok"
    /\ ChainLoads(mat_blob.bundle, mat_disk, 1)

\* C11: when every file of the parent chain loads, the resolved parameters
\* hold, for each hash, the parameter written by the most-derived level that
\* writes that hash (the last one that level writes), and no other hash
C11_ParameterOverride ==
    MaterialLoaded =>
        LET levels == ChainLevels(mat_blob.bundle, mat_disk, 1)
            At(h) == {j \in 1..Len(levels) : Writes(OwnBlock(levels[j]), h)}
            First(h) == CHOOSE j \in At(h) : \A k \in At(h) : j <= k
        IN /\ DOMAIN material.parameters = {h \in AllHashes : At(h) # {}}
           /\ \A h \in DOMAIN material.parameters :
                  material.parameters[h] = LastWritten(OwnBlock(levels[First(h)]), h)

\* a parent writes the hash with its value (red), the derived material with
\* its own (blue), and the resolved value is the derived material's
C11_Witness ==
    /\ MaterialLoaded
    /\ RefersTo(mat_blob.bundle, 1)
    /\ OwnBlock(mat_blob.bundle) = <<LevelParam(PlainHash, 0)>>
    /\ Writes(OwnBlock(mat_disk[1].bundle), PlainHash)
    /\ material.parameters[PlainHash].value = PyInt(1)

\* the same through a chain of two parent files
C11_WitnessDeep ==
    /\ MaterialLoaded
    /\ Len(ChainLevels(mat_blob.bundle, mat_disk, 1)) = 3
    /\ ~Writes(OwnBlock(mat_blob.bundle), PlainHash)
    /\ Writes(OwnBlock(mat_disk[1].bundle), PlainHash)
    /\ Writes(OwnBlock(mat_disk[2].bundle), PlainHash)
    /\ PlainHash \in DOMAIN material.parameters

\* C12: once a parent load has failed, no exception leaves deserialize; when
\* it returns, every hash merged before a failure is still in the mapping,
\* the parameters of the material's own block are merged and the diffuse
\* texture, diffuse colour and normal texture are taken from the mapping
C12_ParentFailureContained ==
    material.failed # <<>> =>
        /\ material.pc # "raised"
        /\ material.pc = "done" =>
              LET p == material.parameters
                  own == OwnBlock(mat_blob.bundle)
                  PathOf(h) == IF h \in DOMAIN p /\ Truthy(p[h].path)
                               THEN p[h].path ELSE PyNone
              IN /\ \A k \in 1..Len(material.failed) :
                        DOMAIN material.failed[k] \subseteq DOMAIN p
                 /\ \A h \in AllHashes :
                        Writes(own, h) => h \in DOMAIN p /\ p[h] = LastWritten(own, h)
                 /\ material.diffuse_texture = PathOf(DIFFUSE_TEXTURE)
                 /\ material.normal_texture = PathOf(NORMAL_TEXTURE)
                 /\ material.diffuse_color =
                        IF DIFFUSE_COLOR \in DOMAIN p /\ Truthy(p[DIFFUSE_COLOR].value)
                        THEN p[DIFFUSE_COLOR].value ELSE DefaultColor

\* the second parent file is truncated: the first parent's parameters and the
\* material's own block are merged and the diffuse texture is extracted
C12_Witness ==
    /\ material.pc = "done"
    /\ material.failed # <<>>
    /\ mat_disk[1].status = "ok"
    /\ mat_disk[2].status = "truncated"
    /\ Writes(OwnBlock(mat_disk[1].bundle), PlainHash)
    /\ Writes(OwnBlock(mat_blob.bundle), DIFFUSE_TEXTURE)
    /\ PlainHash \in DOMAIN material.parameters
    /\ material.diffuse_texture = PyStr(<<1, 0>>)

\* a parent path that resolves to nothing
C12_WitnessUnresolved ==
    /\ material.pc = "done"
    /\ material.failed # <<>>
    /\ ParentBlobs(mat_blob.bundle) = <<PyStr(GonePath)>>
    /\ OtherHash \in DOMAIN material.parameters

----------------------------------------------------------------------------
(* ShaderParameter: the cursor *)

\* the payload size of a parameter type; a type that has no branch reads nothing
PayloadAdvance(e) ==
    CASE e.type \in {0, 5, 9} -> 16
      [] e.type = 1 -> 16
      [] e.type \in {2, 3, 4} -> 4
      [] e.type = 6 -> Len(Prefix7Bit(Len(e.path), e.prefix)) + Len(e.path) + 4
      [] e.type = 7 -> 8 + (IF AtLeast(e.version, 1, 1) THEN 4 ELSE 0)
      [] e.type = 8 -> 4 + 4 * e.count
      [] e.type = 11 -> 8 + (IF AtLeast(e.version, 2, 0) THEN 0 ELSE 8)
      [] OTHER -> 0

ParamAdvance(e) ==
    2 + 4
    + (IF AtLeast(e.version, 3, 1) THEN 1 + (IF e.flag # 0 THEN 4 ELSE 0) ELSE 0)
    + 1
    + (IF AtLeast(e.version, 3, 0) THEN 16 ELSE 0)
    + PayloadAdvance(e)

\* C13: on a stream that holds the whole record, ShaderParameter.deserialize
\* leaves the cursor at 2 + 4 + (V >= 3.1: 1, + 4 on a non-zero flag) + 1 +
\* (V >= 3.0: 16) + the payload size of the type code; the one call that does
\* not return is a texture path that is not UTF-8, which raises after the
\* path bytes and before the 4 skipped bytes
C13_CursorAdvance ==
    (/\ shader_param.pc \in {"done", "raised"}
     /\ Len(shader_param.st.s.buf) >= ParamAdvance(shader_param.enc))
    => /\ shader_param.pc = "done"
          => shader_param.st.s.pos = ParamAdvance(shader_param.enc)
       /\ shader_param.pc = "raised"
          => /\ shader_param.enc.type = 6
             /\ \E i \in 1..Len(shader_param.enc.path) : shader_param.enc.path[i] >= 128
             /\ shader_param.st.s.pos = ParamAdvance(shader_param.enc) - 4

\* a version 3.1 texture parameter with a set flag, a two-byte prefix and a
\* two-byte path has been read from a stream with bytes to spare
C13_Witness ==
    /\ shader_param.pc = "done"
    /\ shader_param.enc.version = <<3, 1>>
    /\ shader_param.enc.flag = 1
    /\ shader_param.enc.type = 6
    /\ shader_param.enc.prefix = 2
    /\ shader_param.st.path = PyStr(<<97, 97>>)
    /\ Len(shader_param.st.s.buf) > ParamAdvance(shader_param.enc)
    /\ shader_param.st.s.pos = 36

\* a version 1.1 sampler has been read: 6 + 1 + 12 bytes
C13_WitnessSampler ==
    /\ shader_param.pc = "done"
    /\ shader_param.enc.version = <<1, 1>>
    /\ shader_param.enc.type = 7
    /\ shader_param.st.s.pos = 19
    /\ Len(shader_param.st.s.buf) >= 19

----------------------------------------------------------------------------
(* Texture: the format identifier and the assembled buffer *)

FormatKeys == (0..9) \cup {13}
Loaded == texture.pc = "done" /\ texture.returned = PyBool(TRUE)
\* the header holds the transcoding, color_profile and encoding fields
HasFormatFields == Loaded /\ tex_file.enc.length >= 68
SelectedFormat(e) == IF e.transcoding <= 1 THEN e.encoding ELSE e.transcoding - 2

\* C14: the format identifier is the table's entry for format_encoded =
\* encoding if transcoding <= 1 else transcoding - 2; a format_encoded that
\* is no key of the table gives 0; transcoding 0, encoding 2, color_profile 0
\* gives 77
C14_FormatSelection ==
    HasFormatFields =>
        LET e == tex_file.enc
        IN /\ texture.format_encoded = PyInt(SelectedFormat(e))
           /\ SelectedFormat(e) \notin FormatKeys => texture.dxgi_format = PyInt(0)
           /\ SelectedFormat(e) \in FormatKeys =>
                 texture.dxgi_format =
                     PyInt(format_map(PyInt(SelectedFormat(e)), PyInt(e.color_profile)))
           /\ (e.transcoding = 0 /\ e.encoding = 2 /\ e.color_profile = 0) =>
                 texture.dxgi_format = PyInt(77)

\* the header with transcoding 0, encoding 2, color_profile 0 has been loaded
C14_Witness ==
    /\ HasFormatFields
    /\ tex_file.enc.transcoding = 0
    /\ tex_file.enc.encoding = 2
    /\ tex_file.enc.color_profile = 0
    /\ texture.dxgi_format = PyInt(77)

\* a header whose format_encoded (10) is no key of the table has been loaded
C14_WitnessUnmapped ==
    /\ HasFormatFields
    /\ tex_file.enc.transcoding = 12
    /\ texture.format_encoded = PyInt(10)
    /\ texture.dxgi_format = PyInt(0)

\* C15 as stated: transcoding 3, encoding 5 gives format_encoded 3 and the
\* identifier 80, for color_profile 1 and for color_profile 0
C15_Transcoding3Gives80 ==
    (HasFormatFields /\ tex_file.enc.transcoding = 3 /\ tex_file.enc.encoding = 5) =>
        /\ texture.format_encoded = PyInt(3)
        /\ texture.dxgi_format = PyInt(80)

\* C15: transcoding 3, encoding 5 gives format_encoded 1 (transcoding - 2) and
\* the identifier 75 with color_profile 1, 74 with color_profile 0; it is
\* transcoding 5 that gives format_encoded 3 and the identifier 80, whatever
\* the color_profile
C15_Transcoding3Gives75 ==
    /\ (HasFormatFields /\ tex_file.enc.transcoding = 3 /\ tex_file.enc.encoding = 5) =>
          /\ texture.format_encoded = PyInt(1)
          /\ texture.dxgi_format = PyInt(IF tex_file.enc.color_profile = 1 THEN 75 ELSE 74)
    /\ (HasFormatFields /\ tex_file.enc.transcoding = 5) =>
          /\ texture.format_encoded = PyInt(3)
          /\ texture.dxgi_format = PyInt(80)

\* the header with transcoding 3, encoding 5, color_profile 1 has been loaded
C15_Witness ==
    /\ HasFormatFields
    /\ tex_file.enc.transcoding = 3
    /\ tex_file.enc.encoding = 5
    /\ tex_file.enc.color_profile = 1
    /\ texture.dxgi_format = PyInt(75)

\* C16: whenever load returns True the buffer is a header of 148 bytes and
\* then the payload, with the height block at bytes 12..15, the width at
\* 16..19, the linear size at 20..23, the mip byte at 28 and the format
\* identifier at 128..131, headers shorter than the fixed layout included
C16_FixedHeader ==
    Loaded =>
        /\ Len(texture.buffer) = 148 + Len(tex_file.payload)
        /\ SubSeq(texture.buffer, 149, Len(texture.buffer)) = tex_file.payload
        /\ SubSeq(texture.buffer, 13, 16) = HeaderHeight
        /\ SubSeq(texture.buffer, 17, 20) = HeaderWidth
        /\ SubSeq(texture.buffer, 21, 24) = HeaderLinearSize
        /\ texture.buffer[29] = 5
        /\ SubSeq(texture.buffer, 129, 132) = pack_I(texture.dxgi_format.v)

----------------------------------------------------------------------------
(* SmartPathResolver: the filename index and the cache *)

\* two file names are the same when their case is ignored
Upper(c) ==
    CASE c \in {"body.dds", "Body.DDS", "BODY.dds"} -> "BODY.DDS"
      [] c = "skin.dds" -> "SKIN.DDS"
      [] OTHER -> c
SameName(a, b) == Upper(a) = Upper(b)

\* the files under the base folder and under the game root, if it is set and
\* a directory
Indexed ==
    Walk(filesystem, resolver.base_folder)
    \cup (IF resolver.game_root # <<>> /\ isdir(filesystem, resolver.game_root)
          THEN Walk(filesystem, resolver.game_root) ELSE {})

Named(game_path) == {f \in Indexed : SameName(basename(f), basename(game_path))}

\* C17: if a file under the base folder or the game root has the file name
\* of the path's last component, case ignored, resolve returns such a file,
\* whatever the directory part of the path
C17_FilenameIndex ==
    (resolved.called /\ resolved.game_path # <<>> /\ Named(resolved.game_path) # {})
        => resolved.r \in Named(resolved.game_path)

\* Game:\media\cars\body.dds has been resolved, first call, to a file of
\* another case in the textures folder, the only file there is
C17_Witness ==
    /\ resolved.called
    /\ ~resolved.hit
    /\ resolved.game_path = <<"Game:", "media", "cars", "body.dds">>
    /\ filesystem.files = {BaseFolder \o <<"textures", "Body.DDS">>}
    /\ resolved.r = BaseFolder \o <<"textures", "Body.DDS">>

\* the same from a file under the game root
C17_WitnessGameRoot ==
    /\ resolved.called
    /\ resolved.game_path = <<"textures", "BODY.dds">>
    /\ filesystem.files = {GameRoot \o <<"media", "cars", "body.dds">>}
    /\ resolved.r = GameRoot \o <<"media", "cars", "body.dds">>

\* C18: a repeated resolve of a path that does not resolve returns None from
\* the cache, with no index lookup, no existence check and no upward search
C18_UnresolvedCached ==
    (resolved.called /\ resolved.again /\ resolved.game_path # <<>>
     /\ resolved.r = <<>>)
        => /\ resolved.hit
           /\ resolved.lookups = 0
           /\ resolved.checks = 0
           /\ resolved.searches = 0

----------------------------------------------------------------------------
(* import_all: the batch, and the counts of the Model blob *)

\* C19: every file found is attempted once, in the order found, whatever
\* the files before it did; import_all returns FINISHED if and only if a
\* file was imported
C19_BatchSurvives ==
    /\ Len(batch.attempts) = batch.n
    /\ \A i \in 1..Len(batch.attempts) :
          /\ batch.attempts[i].file = i
          /\ batch.attempts[i].got =
                 import_modelbin(batch.folder[i], batch.import_materials)
    /\ batch.pc = "done" =>
          /\ Len(batch.attempts) = Len(batch.folder)
          /\ batch.result = "FINISHED" <=>
                 \E i \in 1..Len(batch.attempts) : batch.attempts[i].got.returned

\* a file without a Modl blob failed, the file after it was imported, and
\* import_all returned FINISHED
C19_Witness ==
    /\ batch.pc = "done"
    /\ Len(batch.folder) = 2
    /\ batch.folder[1].status = "no Modl"
    /\ ~batch.attempts[1].got.returned
    /\ batch.attempts[2].got.returned
    /\ batch.result = "FINISHED"

\* a file whose decode raised, and then one that was imported
C19_WitnessRaised ==
    /\ batch.pc = "done"
    /\ Len(batch.attempts) = 2
    /\ IsRaise(batch.attempts[1].got.exc)
    /\ batch.attempts[2].got.returned
    /\ batch.result = "FINISHED"

\* two files that hold the same blobs but for the counts of the Modl blob
SameButCounts(f, g) == [f EXCEPT !.model = g.model] = g

\* the MatI blobs that were deserialized
DecodedMaterials(got) ==
    {i \in 1..Len(got.materials) : got.materials[i] = "deserialized"}

\* C20: two files that differ only in the counts of the Modl blob decode the
\* same meshes and materials and return the same result
C20_CountsInformational ==
    \A i, j \in 1..Len(batch.attempts) :
        SameButCounts(batch.folder[i], batch.folder[j]) =>
            /\ batch.attempts[i].got.returned = batch.attempts[j].got.returned
            /\ batch.attempts[i].got.meshes = batch.attempts[j].got.meshes
            /\ DecodedMaterials(batch.attempts[i].got) =
                   DecodedMaterials(batch.attempts[j].got)

----------------------------------------------------------------------------
(* The vertex loop: the cursors of the element readers *)

\* C21: for every element and every format code, the bytes read for one
\* vertex and the advance of stride - size add up to the stride: after the
\* loop has decoded k vertices every element's reader is at byte k * stride
\* of its range, and the bytes two elements read for a vertex do not overlap
C21_ReaderAlignment ==
    (vertices.pc \in {"loop", "done"} /\ vertices.k >= 1) =>
        \A a \in DOMAIN vertices.elements :
            /\ vertices.elements[a].stream.pos = vertices.k * vertices.stride
            /\ \A b \in DOMAIN vertices.elements \ {a} :
                  \/ vertices.elements[a].read[2] <= vertices.elements[b].read[1]
                  \/ vertices.elements[b].read[2] <= vertices.elements[a].read[1]

----------------------------------------------------------------------------
(* BinaryStream: the ranges of the normalized reads *)

\* C22: a normalized read that returns a value returns it within its range:
\* read_sn16 gives raw/32767 within [-1, 1], read_un8 gives raw/255 within
\* [0, 1], read_un16 gives raw/65535 within [0, 1]
C22_NormalizedRanges ==
    last.r.t = "frac" =>
        /\ last.op = "read_sn16" =>
              /\ last.r.v[2] = 32767
              /\ -32767 <= last.r.v[1] /\ last.r.v[1] <= 32767
        /\ last.op = "read_un8" =>
              /\ last.r.v[2] = 255
              /\ 0 <= last.r.v[1] /\ last.r.v[1] <= 255
        /\ last.op = "read_un16" =>
              /\ last.r.v[2] = 65535
              /\ 0 <= last.r.v[1] /\ last.r.v[1] <= 65535

----------------------------------------------------------------------------
(* _load_parent_material: parent references that form a cycle *)

\* following the parent references from bundle b comes back to a file that
\* was already opened (every file on the way resolves and decodes)
RECURSIVE LeadsBack(_, _, _)
LeadsBack(b, disk, seen) ==
    LET refs == ParentBlobs(b)
    IN IF refs = <<>> \/ IsRaise(refs[1]) \/ ~Truthy(refs[1]) THEN FALSE
       ELSE IF FileAt(disk, refs[1].v).status # "ok" THEN FALSE
       ELSE IF refs[1].v \in seen THEN TRUE
       ELSE LeadsBack(FileAt(disk, refs[1].v).bundle, disk, seen \cup {refs[1].v})
Cyclic == mat_blob.status = "ok" /\ LeadsBack(mat_blob.bundle, mat_disk, {})
Finished == material.pc \in {"done", "raised"}
NoRepeat(s) == \A i, j \in 1..Len(s) : i # j => s[i] # s[j]

\* C23: the load of a parent chain without a cycle ends, opens no file twice
\* and raises no RecursionError; on parent references that form a cycle the
\* load opens files again, no frame returns before the interpreter refuses a
\* call, and the load ends only after that RecursionError
C23_NoCycleGuard ==
    /\ [](~Cyclic => trail.recursion_errors = 0 /\ NoRepeat(trail.visits))
    /\ (~Cyclic ~> Finished)
    /\ []((Cyclic /\ trail.recursion_errors = 0) =>
            /\ ~Finished
            /\ material.pc = "run" =>
                   Len(material.stack) \in {Len(trail.visits) + 1, Len(trail.visits) + 2})
    /\ []((Cyclic /\ Finished) => ~NoRepeat(trail.visits))
C23_Witness ==
    /\ Cyclic
    /\ Finished
    /\ trail.recursion_errors = 1
    /\ Len(trail.visits) = RecursionLimit - 1
C23_WitnessAcyclic ==
    /\ ~Cyclic
    /\ Finished
    /\ Len(trail.visits) = MaxChain

----------------------------------------------------------------------------
(* The import operator: the counters of the last run, and the log *)

\* C24: after any sequence of runs of the import operator,
\* FORZA_LAST_MESH_COUNT is the number of meshes the most recent run created
C24_CountersReset ==
    session.runs >= 1 => session.FORZA_LAST_MESH_COUNT = session.created

\* C30: after any sequence of forza_log calls and operator runs,
\* FORZA_LOG_MESSAGES holds at most FORZA_LOG_LIMIT messages, and they are the
\* most recent messages emitted, in the order of their emission
C30_LogBounded ==
    LET log == session.FORZA_LOG_MESSAGES
    IN /\ Len(log) <= FORZA_LOG_LIMIT
       /\ Len(log) = Min(session.emitted, FORZA_LOG_LIMIT)
       /\ \A i \in 1..Len(log) : log[i] = session.emitted - Len(log) + i
C30_Witness ==
    /\ session.runs >= 1
    /\ session.emitted > FORZA_LOG_LIMIT + RunAppends
    /\ Len(session.FORZA_LOG_MESSAGES) = FORZA_LOG_LIMIT
    /\ session.FORZA_LOG_MESSAGES[1] > 1
    /\ session.FORZA_LOG_MESSAGES[FORZA_LOG_LIMIT] = session.emitted

----------------------------------------------------------------------------
(* Skeleton.deserialize: a parent index below -1 *)

\* C25: a bone whose parent index is below -1 is composed with no bone (it
\* stores its local matrix), and Skeleton.deserialize raises no error
C25_BelowRootNoParent ==
    /\ \A i \in 1..Len(skeleton.bones) :
          skel_blob[i].parent_index < -1 =>
              skeleton.bones[i].transform = skel_blob[i].local
    /\ skeleton.pc # "raised"
\* the wrap-around alone: the bone counted from the end of the list is used
C25_NoWrapAround ==
    \A i \in 1..Len(skeleton.bones) :
        skel_blob[i].parent_index < -1 =>
            skeleton.bones[i].transform = skel_blob[i].local

----------------------------------------------------------------------------
(* _extract_material_properties: the diffuse colour *)

IsRGBA(c) == c.t = "tuple" /\ Len(c.v) = 4

\* C26: after the parameters are extracted, diffuse_color has four
\* components; it is the default, or the value of a parameter of type 1
\* (Color) stored under the diffuse-colour hash; a parameter of another type
\* under that hash leaves the default
C26_DiffuseColorRGBA ==
    material.pc = "done" =>
        /\ IsRGBA(material.diffuse_color)
        /\ \/ material.diffuse_color = DefaultColor
           \/ /\ shader_param.st.type = PyInt(1)
              /\ DIFFUSE_COLOR \in DOMAIN material.parameters
              /\ material.diffuse_color = shader_param.st.value
        /\ shader_param.st.type # PyInt(1) => material.diffuse_color = DefaultColor
\* a Color parameter under the hash is taken
C26_ColorTaken ==
    /\ material.pc = "done"
    /\ shader_param.st.type = PyInt(1)
    /\ IsRGBA(material.diffuse_color)
    /\ material.diffuse_color # DefaultColor

----------------------------------------------------------------------------
(* Texture.load: what a failed load leaves behind *)

\* C27: when load returns False, buffer is still None and guid is still ""
C27_FailureLeavesUnchanged ==
    (texture.pc = "done" /\ texture.returned = PyBool(FALSE)) =>
        /\ texture.buffer = <<>>
        /\ texture.guid = PyStr(<<>>)
\* the buffer alone: a failed load assigns no buffer
C27_FailureLeavesBuffer ==
    (texture.pc = "done" /\ texture.returned = PyBool(FALSE)) => texture.buffer = <<>>

----------------------------------------------------------------------------
(* SmartPathResolver: the cache on a file system that changes *)

\* C28: the cache holds exactly the paths that have resolved, each with the
\* result, not None, of the first call that resolved it (no entry is
\* removed or overwritten), and every later resolve of such a path returns
\* that result, whatever has become of the file system
C28_CacheInvariant ==
    /\ resolver.cache = history.first
    /\ \A p \in DOMAIN resolver.cache : resolver.cache[p] # <<>>
    /\ (resolved.called /\ resolved.game_path \in DOMAIN history.first)
          => resolved.r = history.first[resolved.game_path]
\* a cached path is resolved again after the file it resolved to was deleted
C28_Witness ==
    /\ history.changes >= 1
    /\ resolved.called
    /\ resolved.hit
    /\ resolved.game_path = <<"skin.dds">>
    /\ resolved.r = <<"cars", "skin.dds">>
    /\ ~exists(filesystem, resolved.r)

----------------------------------------------------------------------------
(* The vertex loop: the bone whose transform is applied *)

BoneInRange == 0 <= vertices.bone_index /\ vertices.bone_index < Len(vertices.bones)

\* C29: with a skeleton that has bones, the transform applied to a vertex is
\* that of the bone at index bone_index when 0 <= bone_index < number of
\* bones; with bone_index -1 or otherwise out of that range no bone's
\* transform is applied and the loop raises no IndexError
C29_BoneInRange ==
    vertices.bones # <<>> =>
        /\ (BoneInRange /\ vertices.k >= 1) =>
              vertices.bone_transform =
                  [t |-> "list", v |-> vertices.bones[vertices.bone_index + 1].transform]
        /\ ~BoneInRange =>
              /\ vertices.bone_transform = PyNone
              /\ vertices.exc # PyRaise("IndexError")
\* the part that holds: an index in range selects its bone
C29_InRangeSelected ==
    (vertices.bones # <<>> /\ BoneInRange /\ vertices.k >= 1) =>
        vertices.bone_transform =
            [t |-> "list", v |-> vertices.bones[vertices.bone_index + 1].transform]
====
